---------------------------- MODULE Spec2Model ----------------------------
(***************************************************************************)
(* A model of the validation-and-derivation core of WELLOPS:              *)
(*   app/core/canonical.py            text canonicalisation               *)
(*   app/core/hole_section_calcs.py   parsers and engineering calculators *)
(*   app/core/rules/__init__.py       ValidationResult                    *)
(*   app/core/rules/hole_section_rules.py   validate_hole_section         *)
(*                                                                         *)
(* Python strings are TLA+ strings (TLC evaluates Len, Head, Tail, SubSeq *)
(* and \o on them).  A Python value is a record [t, s, n, l]: t is the    *)
(* type name, s the text of a str, n the number of an int, the number of  *)
(* a float in thousandths, or the yyyymmdd of a date, l the items of a    *)
(* list.  An exception is the name of its class; "" means none raised.    *)
(***************************************************************************)
EXTENDS Integers, Sequences, FiniteSets, TLC

VARIABLES
    pc,            \* position of the caller: before or after the call
    vr,            \* the ValidationResult objects, by name (None: not yet made)
    text,          \* the argument of canonical_text
    ctext,         \* what canonical_text returned
    section_data,  \* the dict handed to validate_hole_section
    result,        \* what validate_hole_section returned, or the exception it raised
    widgets,       \* what the widgets of the hole-section form hold, by data key
    click,         \* the button of the last click the form handled
    calls,         \* the data of each save_hole_section call, oldest first
    store          \* the row of the hole section in the store (None: no row)

vars == <<pc, vr, text, ctext, section_data, result, widgets, click, calls, store>>

----------------------------------------------------------------------------
(* Python str methods, on TLA+ strings                                     *)

\* Characters str.strip() and the regex class \s remove (the ASCII ones).
WHITESPACE == {" ", "\t", "\n", "\r"}

DIGITS == "0123456789"

\* c is one of '0'..'9' (what str.isdigit() accepts of the ASCII range).
IsDigitChar(c) == \E i \in 1..10 : SubSeq(DIGITS, i, i) = c

DigitValue(c) == (CHOOSE i \in 1..10 : SubSeq(DIGITS, i, i) = c) - 1

RECURSIVE LStrip(_)
LStrip(s) == IF s # "" /\ Head(s) \in WHITESPACE THEN LStrip(Tail(s)) ELSE s

RECURSIVE RStrip(_)
RStrip(s) ==
    IF s # "" /\ SubSeq(s, Len(s), Len(s)) \in WHITESPACE
    THEN RStrip(SubSeq(s, 1, Len(s) - 1))
    ELSE s

\* str.strip()
Strip(s) == RStrip(LStrip(s))

\* str.replace(old, new), old non-empty: leftmost non-overlapping occurrences.
RECURSIVE Replace(_, _, _)
Replace(s, old, new) ==
    IF Len(s) < Len(old) THEN s
    ELSE IF SubSeq(s, 1, Len(old)) = old
         THEN new \o Replace(SubSeq(s, Len(old) + 1, Len(s)), old, new)
         ELSE Head(s) \o Replace(Tail(s), old, new)

\* str.isdigit(): non-empty and every character a digit.
RECURSIVE IsDigit(_)
IsDigit(s) ==
    /\ s # ""
    /\ IsDigitChar(Head(s))
    /\ (Len(s) = 1 \/ IsDigit(Tail(s)))

\* The value of a string of digits ("" is 0, as an accumulator start).
RECURSIVE DigitsToInt(_)
DigitsToInt(s) ==
    IF s = "" THEN 0
    ELSE 10 * DigitsToInt(SubSeq(s, 1, Len(s) - 1))
         + DigitValue(SubSeq(s, Len(s), Len(s)))

\* str(n) of a non-negative int.
RECURSIVE NatToStr(_)
NatToStr(n) ==
    IF n < 10 THEN SubSeq(DIGITS, n + 1, n + 1)
    ELSE NatToStr(n \div 10) \o SubSeq(DIGITS, (n % 10) + 1, (n % 10) + 1)

\* str(n) of an int.
IntToStr(n) == IF n < 0 THEN "-" \o NatToStr(0 - n) ELSE NatToStr(n)

\* f"{n:02d}" of a non-negative int.
Pad2(n) == IF n < 10 THEN "0" \o NatToStr(n) ELSE NatToStr(n)


\* c occurs in the string chars.
CharIn(c, chars) == \E i \in 1..Len(chars) : SubSeq(chars, i, i) = c

\* The character of `to` at the place c has in `from`; c itself when it has none.
MapChar(c, from, to) ==
    IF CharIn(c, from)
    THEN LET i == CHOOSE j \in 1..Len(from) : SubSeq(from, j, j) = c
         IN  SubSeq(to, i, i)
    ELSE c

----------------------------------------------------------------------------
(* Python values                                                           *)

PyNone == [t |-> "None", s |-> "", n |-> 0, l |-> <<>>]
PyStr(x) == [t |-> "str", s |-> x, n |-> 0, l |-> <<>>]
PyInt(i) == [t |-> "int", s |-> "", n |-> i, l |-> <<>>]
\* A float, by its value in thousandths (12.125 is PyFloat(12125)).
PyFloat(m) == [t |-> "float", s |-> "", n |-> m, l |-> <<>>]
\* The float that is not a number, float("nan"): it equals nothing and
\* every comparison with it is False.
PyNaN == [t |-> "float", s |-> "nan", n |-> 0, l |-> <<>>]
IsNaN(x) == x.t = "float" /\ x.s = "nan"
\* A datetime.date, by its yyyymmdd.
PyDate(ymd) == [t |-> "date", s |-> "", n |-> ymd, l |-> <<>>]
\* A datetime.datetime, by the yyyymmdd of its date and the text of its time.
PyDateTime(ymd, hms) == [t |-> "datetime", s |-> hms, n |-> ymd, l |-> <<>>]
PyList(items) == [t |-> "list", s |-> "", n |-> 0, l |-> items]

\* The items a nozzle list can hold: a NozzleLine, a tuple, a dict.  A tuple
\* holds its elements in order; a dict may lack any of its keys (Missing).
Missing == [t |-> "missing", s |-> "", n |-> 0, l |-> <<>>]
NozzleLine(count, size_32nds) ==
    [k |-> "NozzleLine", count |-> count, size_32nds |-> size_32nds, size |-> Missing]
Tuple2(a, b) == [k |-> "tuple", count |-> a, size_32nds |-> b, size |-> Missing]
Tuple1(a) == [k |-> "tuple1", count |-> a, size_32nds |-> Missing, size |-> Missing]
Dict(count, size_32nds, size) ==
    [k |-> "dict", count |-> count, size_32nds |-> size_32nds, size |-> size]

\* dict.get(key): None for a key the dict does not hold.
Get(d, key) == IF key \in DOMAIN d THEN d[key] ELSE PyNone

\* bool(v), as `or`, `if`, `not` and any() take it.
Truthy(v) ==
    CASE v.t = "None" -> FALSE
      [] v.t = "str" -> v.s # ""
      [] v.t \in {"int", "float"} -> v.n # 0
      [] v.t = "list" -> v.l # <<>>
      [] OTHER -> TRUE

\* a or b
Or(a, b) == IF Truthy(a) THEN a ELSE b

\* The digits repr() writes after the point for f thousandths: "125", "5",
\* "05", "0".
FracToStr(f) ==
    IF f = 0 THEN "0"
    ELSE IF f % 100 = 0 THEN NatToStr(f \div 100)
    ELSE IF f % 10 = 0 THEN Pad2(f \div 10)
    ELSE (IF f < 100 THEN "0" ELSE "") \o Pad2(f)

\* repr() of a float given in thousandths: "12.125", "5.0", "-0.5".
FloatToStr(m) ==
    IF m < 0 THEN "-" \o NatToStr((0 - m) \div 1000) \o "." \o FracToStr((0 - m) % 1000)
    ELSE NatToStr(m \div 1000) \o "." \o FracToStr(m % 1000)

\* str() of a date given as yyyymmdd: "2024-01-05".
DateToStr(ymd) ==
    LET y == ymd \div 10000
    IN  Pad2(y \div 100) \o Pad2(y % 100) \o "-" \o Pad2((ymd \div 100) % 100)
        \o "-" \o Pad2(ymd % 100)

\* ", ".join(parts)
RECURSIVE JoinComma(_)
JoinComma(parts) ==
    IF parts = <<>> THEN ""
    ELSE IF Len(parts) = 1 THEN parts[1]
    ELSE parts[1] \o ", " \o JoinComma(Tail(parts))

\* repr(v) of a scalar inside a container.
ScalarRepr(v) ==
    CASE v.t = "str" -> "'" \o v.s \o "'"
      [] v.t = "int" -> IntToStr(v.n)
      [] v.t = "float" -> IF IsNaN(v) THEN "nan" ELSE FloatToStr(v.n)
      [] OTHER -> "None"

\* repr(item) of an item of a list, from the repr of its three places.
ItemReprOf(it, count, size_32nds, size) ==
    CASE it.k = "NozzleLine" ->
            "NozzleLine(count=" \o count \o ", size_32nds=" \o size_32nds \o ")"
      [] it.k = "tuple" -> "(" \o count \o ", " \o size_32nds \o ")"
      [] it.k = "tuple1" -> "(" \o count \o ",)"
      [] OTHER ->
            "{" \o JoinComma(
                (IF it.count.t = "missing" THEN <<>> ELSE <<"'count': " \o count>>)
                \o (IF it.size_32nds.t = "missing" THEN <<>>
                    ELSE <<"'size_32nds': " \o size_32nds>>)
                \o (IF it.size.t = "missing" THEN <<>> ELSE <<"'size': " \o size>>))
            \o "}"

\* repr(item) of an item of a list.
ItemRepr(it) ==
    ItemReprOf(it, ScalarRepr(it.count), ScalarRepr(it.size_32nds), ScalarRepr(it.size))

\* str(v)
ToStr(v) ==
    CASE v.t = "None" -> "None"
      [] v.t = "str" -> v.s
      [] v.t = "int" -> IntToStr(v.n)
      [] v.t = "float" -> IF IsNaN(v) THEN "nan" ELSE FloatToStr(v.n)
      [] v.t = "date" -> DateToStr(v.n)
      [] v.t = "datetime" -> DateToStr(v.n) \o " " \o v.s
      [] OTHER -> "[" \o JoinComma([i \in 1..Len(v.l) |-> ItemRepr(v.l[i])]) \o "]"

----------------------------------------------------------------------------
(* app/core/canonical.py                                                   *)

LOWER == "abcdefghijklmnopqrstuvwxyz"
UPPER == "ABCDEFGHIJKLMNOPQRSTUVWXYZ"

\* _strip_diacritics: NFKD, then the combining marks dropped.  ASCII is its
\* own decomposition; the accented letters of the table lose their mark.
RECURSIVE _strip_diacritics(_)
_strip_diacritics(s) ==
    IF s = "" THEN ""
    ELSE MapChar(Head(s), "üöçéÜÖÇ", "uoceUOC") \o _strip_diacritics(Tail(s))

\* str.upper()
RECURSIVE Upper(_)
Upper(s) ==
    IF s = "" THEN "" ELSE MapChar(Head(s), LOWER, UPPER) \o Upper(Tail(s))

\* to_ascii_upper(text).  The strings of the model are Latin-1, which holds
\* neither the dotless i nor the dotted I: the three replace() calls of the
\* source find nothing in them and are left out.
to_ascii_upper(v) ==
    IF v.t = "None" THEN ""
    ELSE LET s == Strip(ToStr(v))
         IN  IF s = "" THEN "" ELSE Upper(_strip_diacritics(s))

\* re.sub of a pattern that is a run of one or more characters of `class`:
\* every maximal run becomes repl.
RECURSIVE SubRuns(_, _, _)
SubRuns(s, class, repl) ==
    IF s = "" THEN ""
    ELSE IF Head(s) \in class
         THEN LET RECURSIVE Skip(_)
                  Skip(r) == IF r # "" /\ Head(r) \in class THEN Skip(Tail(r)) ELSE r
              IN  repl \o SubRuns(Skip(s), class, repl)
         ELSE Head(s) \o SubRuns(Tail(s), class, repl)

\* _ALLOWED = [^A-Z0-9 ._-]+ : what it does not match is kept.
IsAllowedChar(c) == CharIn(c, UPPER) \/ IsDigitChar(c) \/ c \in {" ", ".", "_", "-"}

\* _ALLOWED.sub("", s)
RECURSIVE RemoveDisallowed(_)
RemoveDisallowed(s) ==
    IF s = "" THEN ""
    ELSE (IF IsAllowedChar(Head(s)) THEN Head(s) ELSE "") \o RemoveDisallowed(Tail(s))

\* canonical_text(text)
canonical_text(v) ==
    LET s0 == to_ascii_upper(v)
        \* _SEPARATORS.sub("-", s)
        s1 == SubRuns(s0, {"#", "/", "\\"}, "-")
        \* _MULTI_SPACE.sub(" ", s).strip()
        s2 == Strip(SubRuns(s1, WHITESPACE, " "))
        s3 == RemoveDisallowed(s2)
        s4 == Replace(Replace(Replace(s3, " - ", "-"), "- ", "-"), " -", "-")
        \* _MULTI_DASH.sub("-", s): a run of two or more dashes becomes one
        s5 == SubRuns(s4, {"-"}, "-")
    IN  IF s0 = "" THEN "" ELSE Strip(s5)

\* canonical_well_name(text)
canonical_well_name(v) == canonical_text(v)

\* re.fullmatch(r".*-\d+[A-Z0-9]*", s): some dash of s is followed by a
\* digit and then by nothing but digits and capital letters.
MatchesWellKey(s) ==
    \E i \in 1..(Len(s) - 1) :
        /\ SubSeq(s, i, i) = "-"
        /\ IsDigitChar(SubSeq(s, i + 1, i + 1))
        /\ \A j \in (i + 1)..Len(s) :
              IsDigitChar(SubSeq(s, j, j)) \/ CharIn(SubSeq(s, j, j), UPPER)

\* The places of s where re.fullmatch(r"(.*?)(-\d+[A-Z0-9]*)", s) can start
\* its second group: a dash followed by a digit and then by nothing but
\* digits and capital letters.
SuffixStarts(s) ==
    {i \in 1..(Len(s) - 1) :
        /\ SubSeq(s, i, i) = "-"
        /\ IsDigitChar(SubSeq(s, i + 1, i + 1))
        /\ \A j \in (i + 1)..Len(s) :
              IsDigitChar(SubSeq(s, j, j)) \/ CharIn(SubSeq(s, j, j), UPPER)}

\* derive_field_name_from_well_key returning m.group(1) as it is
FieldName_unstripped(s, starts) ==
    IF s = "" THEN ""
    ELSE IF starts # {}
    THEN SubSeq(s, 1, (CHOOSE i \in starts : \A j \in starts : i <= j) - 1)
    ELSE s

\* derive_field_name_from_well_key after canonical_well_name, s its result:
\* the lazy first group takes the shortest prefix the suffix can follow.
FieldName(s, starts) ==
    IF s = "" THEN ""
    ELSE IF starts # {}
    THEN Strip(SubSeq(s, 1, (CHOOSE i \in starts : \A j \in starts : i <= j) - 1))
    ELSE s

\* derive_field_name_from_well_key(well_key), well_key a str
derive_field_name_from_well_key(well_key) ==
    FieldName(canonical_well_name(PyStr(well_key)),
              SuffixStarts(canonical_well_name(PyStr(well_key))))

\* is_well_key_format_ok(well_key), well_key a str
is_well_key_format_ok(well_key) ==
    LET s == canonical_well_name(PyStr(well_key))
    IN  IF s = "" THEN FALSE ELSE MatchesWellKey(s)

----------------------------------------------------------------------------
(* app/core/rules/__init__.py : ValidationResult                           *)

\* A name bound to no object yet.
Unmade == [made |-> FALSE, ok |-> TRUE, errors |-> <<>>,
           field_errors |-> <<>>, warnings |-> <<>>]

\* ValidationResult(ok=ok): the other fields take their default factories.
ValidationResult(ok) ==
    [made |-> TRUE, ok |-> ok, errors |-> <<>>,
     field_errors |-> [f \in {} |-> ""], warnings |-> <<>>]

add_error(self, message) ==
    IF message # ""
    THEN [self EXCEPT !.errors = Append(@, message), !.ok = FALSE]
    ELSE self

add_field_error(self, field_name, message) ==
    IF field_name # "" /\ message # ""
    THEN [self EXCEPT !.field_errors = (field_name :> message) @@ @, !.ok = FALSE]
    ELSE self

add_warning(self, message) ==
    IF message # ""
    THEN [self EXCEPT !.warnings = Append(@, message)]
    ELSE self

\* self.merge(other); other may be self
merge(self, other) ==
    [self EXCEPT !.ok = IF ~other.ok THEN FALSE ELSE @,
                 !.errors = @ \o other.errors,
                 !.warnings = @ \o other.warnings,
                 !.field_errors = other.field_errors @@ @]

ok_result == ValidationResult(TRUE)

\* error_result(message, field_name=field_name); field_name "" stands for
\* None too: both are falsy.
error_result(message, field_name) ==
    IF field_name # ""
    THEN add_field_error(ValidationResult(FALSE), field_name, message)
    ELSE add_error(ValidationResult(FALSE), message)

----------------------------------------------------------------------------
(* app/core/hole_section_calcs.py                                          *)
(* A function that can raise returns [exc, v]: the class of the exception *)
(* it raised ("" for none) and the value it returned.                     *)

Return(v) == [exc |-> "", v |-> v]
Raise(exc) == [exc |-> exc, v |-> PyNone]

\* The least int that float() cannot hold.  CPython raises OverflowError
\* ("int too large to convert to float") from 2^1024 on; the model's
\* integers are 32 bits wide, so the limit is scaled down to them.
FloatIntLimit == 1000000

\* float(n) of an int
IntToFloat(n) ==
    IF n >= FloatIntLimit \/ 0 - n >= FloatIntLimit
    THEN Raise("OverflowError")
    ELSE Return(PyFloat(n * 1000))

\* float() of a str without surrounding whitespace, for the decimal
\* literals [sign] digits [. digits] and [sign] . digits, in thousandths
\* (further digits are dropped), and for [sign] nan in any case.  The
\* other forms float() reads (exponents, inf, underscores) are outside the
\* alphabet of the model's inputs.
FloatLiteral(s) ==
    LET signed == s # "" /\ Head(s) \in {"+", "-"}
        body == IF signed THEN Tail(s) ELSE s
        dots == {i \in 1..Len(body) : SubSeq(body, i, i) = "."}
        dot == IF dots = {} THEN Len(body) + 1 ELSE CHOOSE i \in dots : TRUE
        ip == SubSeq(body, 1, dot - 1)
        fp == SubSeq(body, dot + 1, Len(body))
        wellFormed ==
            /\ Cardinality(dots) <= 1
            /\ ip = "" \/ IsDigit(ip)
            /\ fp = "" \/ IsDigit(fp)
            /\ ip # "" \/ fp # ""
        frac3 == SubSeq(fp \o "000", 1, 3)
        m == DigitsToInt(ip) * 1000 + DigitsToInt(frac3)
    IN  IF Upper(body) = "NAN" THEN Return(PyNaN)
        ELSE IF ~wellFormed THEN Raise("ValueError")
        ELSE Return(PyFloat(IF signed /\ Head(s) = "-" THEN 0 - m ELSE m))

\* float(s) of a str: surrounding whitespace is allowed.
StrToFloat(raw) == FloatLiteral(Strip(raw))

\* int() of a str without surrounding whitespace: [sign] digits.
IntLiteral(s) ==
    LET signed == s # "" /\ Head(s) \in {"+", "-"}
        body == IF signed THEN Tail(s) ELSE s
    IN  IF ~IsDigit(body) THEN Raise("ValueError")
        ELSE Return(IF signed /\ Head(s) = "-" THEN 0 - DigitsToInt(body)
                    ELSE DigitsToInt(body))

\* int(s) of a str: surrounding whitespace is allowed.
StrToInt(raw) == IntLiteral(Strip(raw))

\* normalize_hhmm reading every 3-digit input as hour d1, minutes d2d3
TimeParts_minutes_first(s) ==
    LET colons == {i \in 1..Len(s) : SubSeq(s, i, i) = ":"}
        c == CHOOSE i \in colons : TRUE
        hh_str == SubSeq(s, 1, c - 1)
        mm_str == SubSeq(s, c + 1, Len(s))
    IN  IF colons # {}
        THEN IF Cardinality(colons) # 1 THEN <<FALSE, 0, 0>>
             ELSE IF ~IsDigit(hh_str) \/ ~IsDigit(mm_str) THEN <<FALSE, 0, 0>>
             ELSE <<TRUE, DigitsToInt(hh_str), DigitsToInt(mm_str)>>
        ELSE IF ~IsDigit(s) \/ Len(s) \notin {1, 2, 3, 4} THEN <<FALSE, 0, 0>>
             ELSE IF Len(s) \in {1, 2} THEN <<TRUE, DigitsToInt(s), 0>>
             ELSE IF Len(s) = 3
                  THEN <<TRUE, DigitsToInt(SubSeq(s, 1, 1)), DigitsToInt(SubSeq(s, 2, 3))>>
                  ELSE <<TRUE, DigitsToInt(SubSeq(s, 1, 2)), DigitsToInt(SubSeq(s, 3, 4))>>

\* normalize_hhmm from `if ":" in s:` to the end of its else branch, s the
\* input after the two replace() calls: <<parsed, hh, mm>>, parsed FALSE
\* where "Invalid time format." is raised.
TimeParts(s) ==
    LET colons == {i \in 1..Len(s) : SubSeq(s, i, i) = ":"}
        c == CHOOSE i \in colons : TRUE
        hh_str == SubSeq(s, 1, c - 1)
        mm_str == SubSeq(s, c + 1, Len(s))
        hh_candidate == DigitsToInt(SubSeq(s, 1, 2))
    IN  IF colons # {}
        THEN IF Cardinality(colons) # 1 THEN <<FALSE, 0, 0>>
             ELSE IF ~IsDigit(hh_str) \/ ~IsDigit(mm_str) THEN <<FALSE, 0, 0>>
             ELSE <<TRUE, DigitsToInt(hh_str), DigitsToInt(mm_str)>>
        ELSE IF ~IsDigit(s) \/ Len(s) \notin {1, 2, 3, 4} THEN <<FALSE, 0, 0>>
             ELSE IF Len(s) \in {1, 2} THEN <<TRUE, DigitsToInt(s), 0>>
             ELSE IF Len(s) = 3
                  THEN IF SubSeq(s, 3, 3) = "0" /\ 0 <= hh_candidate
                          /\ hh_candidate <= 24
                       THEN <<TRUE, hh_candidate, 0>>
                       ELSE <<TRUE, DigitsToInt(SubSeq(s, 1, 1)),
                              DigitsToInt(SubSeq(s, 2, 3))>>
                  ELSE <<TRUE, DigitsToInt(SubSeq(s, 1, 2)),
                         DigitsToInt(SubSeq(s, 3, 4))>>

\* normalize_hhmm accepting hour 24 with any minute of an hour
HourMinute_24_with_minutes(s0, hm) ==
    IF s0 = "" THEN Raise("ValueError")
    ELSE IF ~hm[1] THEN Raise("ValueError")
    ELSE IF hm[2] = 24 /\ hm[3] = 0 THEN Return("24:00")
    ELSE IF ~(0 <= hm[2] /\ hm[2] <= 24) THEN Raise("ValueError")
    ELSE IF ~(0 <= hm[3] /\ hm[3] <= 59) THEN Raise("ValueError")
    ELSE Return(Pad2(hm[2]) \o ":" \o Pad2(hm[3]))

\* normalize_hhmm returning "HH:MM:00"
HourMinute_with_seconds(s0, hm) ==
    IF s0 = "" THEN Raise("ValueError")
    ELSE IF ~hm[1] THEN Raise("ValueError")
    ELSE IF hm[2] = 24 /\ hm[3] = 0 THEN Return("24:00:00")
    ELSE IF ~(0 <= hm[2] /\ hm[2] <= 23) THEN Raise("ValueError")
    ELSE IF ~(0 <= hm[3] /\ hm[3] <= 59) THEN Raise("ValueError")
    ELSE Return(Pad2(hm[2]) \o ":" \o Pad2(hm[3]) \o ":00")

\* normalize_hhmm without its parsing: s0 is the stripped input, hm the
\* <<parsed, hh, mm>> of TimeParts.
HourMinute(s0, hm) ==
    IF s0 = "" THEN Raise("ValueError")
    ELSE IF ~hm[1] THEN Raise("ValueError")
    ELSE IF hm[2] = 24 /\ hm[3] = 0 THEN Return("24:00")
    ELSE IF ~(0 <= hm[2] /\ hm[2] <= 23) THEN Raise("ValueError")
    ELSE IF ~(0 <= hm[3] /\ hm[3] <= 59) THEN Raise("ValueError")
    ELSE Return(Pad2(hm[2]) \o ":" \o Pad2(hm[3]))

\* normalize_hhmm from `if not s:` on: s0 is the stripped input, s the
\* input after the two replace() calls.
HhMm(s0, s) == HourMinute(s0, TimeParts(s))

\* normalize_hhmm(raw), raw a str
normalize_hhmm(raw) == HhMm(Strip(raw), Replace(Replace(Strip(raw), ".", ":"), " ", ""))

\* hhmm_to_time after `s = normalize_hhmm(hhmm)`: the time of day, in
\* minutes since 00:00.
TimeOfDay(s) ==
    LET h == DigitsToInt(SubSeq(s.v, 1, 2))
        m == DigitsToInt(SubSeq(s.v, 4, 5))
    IN  IF s.exc # "" THEN s
        ELSE IF h = 24 /\ m = 0 THEN Return(0)
        ELSE Return(h * 60 + m)

\* hhmm_to_time(hhmm)
hhmm_to_time(hhmm) == TimeOfDay(normalize_hhmm(hhmm))

\* parse_decimal after `s = s.replace(",", ".")`: s0 is the stripped input,
\* r what float(s) gives.
Decimal(s0, r) ==
    IF s0 = "" THEN Raise("ValueError")
    ELSE IF r.exc # "" THEN Raise("ValueError")
    ELSE r

\* parse_decimal(raw), raw a str
parse_decimal(raw) ==
    Decimal(Strip(raw), StrToFloat(Replace(Replace(Strip(raw), " ", ""), ",", ".")))

\* The lines tfa_from_nozzles and nozzle_summary count.
IsPositiveLine(ln) == ln.count > 0 /\ ln.size_32nds > 0

\* nozzle_summary(lines)
nozzle_summary(lines) ==
    LET RECURSIVE Parts(_)
        Parts(ls) ==
            IF ls = <<>> THEN <<>>
            ELSE (IF IsPositiveLine(Head(ls))
                  THEN <<IntToStr(Head(ls).count) \o "x" \o IntToStr(Head(ls).size_32nds)>>
                  ELSE <<>>) \o Parts(Tail(ls))
    IN  JoinComma(Parts(lines))

\* tfa_from_nozzles returning 0.0 for a list without a positive line.
tfa_from_nozzles_zero_for_none(lines) ==
    LET valid == SelectSeq(lines, IsPositiveLine)
        RECURSIVE Sum(_)
        Sum(ls) ==
            IF ls = <<>> THEN 0
            ELSE Head(ls).size_32nds * Head(ls).size_32nds * Head(ls).count
                 + Sum(Tail(ls))
        overflow ==
            \E i \in 1..Len(valid) :
                \/ IntToFloat(valid[i].size_32nds).exc # ""
                \/ IntToFloat(valid[i].count).exc # ""
    IN  IF overflow THEN Raise("OverflowError")
        ELSE Return(PyFloat((3142 * Sum(valid)) \div 4096))

\* tfa_from_nozzles(lines): pi * (size/32)^2 / 4 * count, summed, as a float
\* in thousandths (pi taken as 3.142).  size/32.0 and area*count convert an
\* int to a float.
tfa_from_nozzles(lines) ==
    LET valid == SelectSeq(lines, IsPositiveLine)
        RECURSIVE Sum(_)
        Sum(ls) ==
            IF ls = <<>> THEN 0
            ELSE Head(ls).size_32nds * Head(ls).size_32nds * Head(ls).count
                 + Sum(Tail(ls))
        overflow ==
            \E i \in 1..Len(valid) :
                \/ IntToFloat(valid[i].size_32nds).exc # ""
                \/ IntToFloat(valid[i].count).exc # ""
    IN  IF valid = <<>> THEN Raise("ValueError")
        ELSE IF overflow THEN Raise("OverflowError")
        ELSE Return(PyFloat((3142 * Sum(valid)) \div 4096))

\* total_drilling_time_hours(rotary_time_hrs, sliding_time_hrs)
total_drilling_time_hours(rotary_time_hrs, sliding_time_hrs) ==
    PyFloat(rotary_time_hrs.n + sliding_time_hrs.n)

\* total_drilling_meters(rotary_m, sliding_m)
total_drilling_meters(rotary_m, sliding_m) == PyFloat(rotary_m.n + sliding_m.n)

\* Days from 0001-01-01 to the date yyyymmdd (date.toordinal()).
IsLeap(y) == (y % 4 = 0 /\ y % 100 # 0) \/ y % 400 = 0

DaysInMonth(y, m) ==
    IF m = 2 THEN (IF IsLeap(y) THEN 29 ELSE 28)
    ELSE IF m \in {4, 6, 9, 11} THEN 30 ELSE 31

ToOrdinal(ymd) ==
    LET y == ymd \div 10000
        m == (ymd \div 100) % 100
        d == ymd % 100
        RECURSIVE Before(_)
        Before(k) == IF k = 0 THEN 0 ELSE DaysInMonth(y, k) + Before(k - 1)
        py == y - 1
    IN  py * 365 + py \div 4 - py \div 100 + py \div 400 + Before(m - 1) + d

\* date.max, 9999-12-31, as an ordinal
MaxOrdinal == 3652059

\* The local time zones of the process: one without clock changes and one
\* with daylight saving (2024 rules of the zone database).
ZONES == {"UTC", "America/New_York"}

\* Minutes by which the local clock of TZ is put forward in the course of
\* the day ymd.
ClockStep(TZ, ymd) ==
    IF TZ = "America/New_York"
    THEN (IF ymd = 20240310 THEN 60 ELSE IF ymd = 20241103 THEN 0 - 60 ELSE 0)
    ELSE 0

\* mob_to_release_hours after the two normalize_hhmm calls, in a process
\* whose local zone is TZ: dates as yyyymmdd, the result a float in
\* thousandths of an hour.  "24:00" moves the instant on from 00:00 of its
\* date by 24 * 3600 seconds of elapsed time, read back on the local clock;
\* the difference is taken between the two naive local datetimes.  The
\* model's 32-bit integers hold durations of up to two centuries.
HoursBetween(TZ, call_out_date, mob_hhmm, release_date, rel_hhmm) ==
    LET mob_time == hhmm_to_time(mob_hhmm.v)
        rel_time == hhmm_to_time(rel_hhmm.v)
        mob_day == ToOrdinal(call_out_date) + (IF mob_hhmm.v = "24:00" THEN 1 ELSE 0)
        rel_day == ToOrdinal(release_date) + (IF rel_hhmm.v = "24:00" THEN 1 ELSE 0)
        mob_minute == IF mob_hhmm.v = "24:00" THEN ClockStep(TZ, call_out_date)
                      ELSE mob_time.v
        rel_minute == IF rel_hhmm.v = "24:00" THEN ClockStep(TZ, release_date)
                      ELSE rel_time.v
        minutes == (rel_day - mob_day) * 1440 + rel_minute - mob_minute
    IN  IF mob_hhmm.exc # "" THEN mob_hhmm
        ELSE IF rel_hhmm.exc # "" THEN rel_hhmm
        \* fromtimestamp() past date.max: "year 10000 is out of range"
        ELSE IF mob_day > MaxOrdinal \/ rel_day > MaxOrdinal THEN Raise("ValueError")
        ELSE IF minutes < 0 THEN Raise("ValueError")
        ELSE Return(PyFloat((minutes \div 60) * 1000 + ((minutes % 60) * 1000) \div 60))

\* mob_to_release_hours(call_out_date, crew_mob_time_hhmm, release_date,
\* release_time_hhmm) in a process whose local zone is TZ
mob_to_release_hours_in(TZ, call_out_date, crew_mob_time_hhmm, release_date, release_time_hhmm) ==
    HoursBetween(TZ, call_out_date, normalize_hhmm(crew_mob_time_hhmm),
                 release_date, normalize_hhmm(release_time_hhmm))

\* mob_to_release_hours(call_out_date, crew_mob_time_hhmm, release_date,
\* release_time_hhmm) where the local clock is never changed
mob_to_release_hours(call_out_date, crew_mob_time_hhmm, release_date, release_time_hhmm) ==
    mob_to_release_hours_in("UTC", call_out_date, crew_mob_time_hhmm, release_date,
                            release_time_hhmm)

\* eff_drilling_percent giving 100.0 for a BRT that is not positive
eff_drilling_percent_full_without_brt(drilling_time_hrs, total_brt_hrs) ==
    LET dt == drilling_time_hrs.n
        brt == total_brt_hrs.n
    IN  IF ~IsNaN(drilling_time_hrs) /\ dt <= 0 THEN PyFloat(0)
        ELSE IF ~IsNaN(total_brt_hrs) /\ brt <= 0 THEN PyFloat(100000)
        ELSE IF IsNaN(drilling_time_hrs) \/ IsNaN(total_brt_hrs) THEN PyNaN
        ELSE PyFloat(((dt * 100) \div brt) * 1000 + (((dt * 100) % brt) * 1000) \div brt)

\* eff_drilling_percent(drilling_time_hrs, total_brt_hrs), floats in
\* thousandths; the quotient is formed without leaving 32 bits.  A
\* comparison with nan is False, and the quotient of a nan is nan.
eff_drilling_percent(drilling_time_hrs, total_brt_hrs) ==
    LET dt == drilling_time_hrs.n
        brt == total_brt_hrs.n
    IN  IF ~IsNaN(drilling_time_hrs) /\ dt <= 0 THEN PyFloat(0)
        ELSE IF ~IsNaN(total_brt_hrs) /\ brt <= 0 THEN PyFloat(0)
        ELSE IF IsNaN(drilling_time_hrs) \/ IsNaN(total_brt_hrs) THEN PyNaN
        ELSE PyFloat(((dt * 100) \div brt) * 1000 + (((dt * 100) % brt) * 1000) \div brt)

----------------------------------------------------------------------------
(* app/core/rules/step2_rules.py                                           *)

STEP2_REQUIRED_FIELDS ==
    <<"kop_m", "tvd_planned_m", "md_planned_m", "max_inc_planned_deg",
      "azimuth_planned_deg", "max_dls_planned_deg_per_30m", "vs_planned_m",
      "dist_planned_m">>

\* The fields of the "Actual (optional) numeric parsing" block, in its order.
STEP2_ACTUAL_FIELDS ==
    <<"tvd_at_td_m", "md_at_td_m", "inc_at_td_deg", "azimuth_at_td_deg",
      "max_dls_actual_deg_per_30m", "vs_at_td_m", "dist_at_td_m">>

STEP2_FIELD_LABELS ==
    "kop_m" :> "KOP (m)"
    @@ "tvd_planned_m" :> "Planned Well TVD (m)"
    @@ "md_planned_m" :> "Planned Well MD (m)"
    @@ "max_inc_planned_deg" :> "Planned Max Inc (deg)"
    @@ "azimuth_planned_deg" :> "Planned Azimuth (deg)"
    @@ "max_dls_planned_deg_per_30m" :> "Planned Max DLS (deg/30m)"
    @@ "vs_planned_m" :> "Planned VS (m)"
    @@ "dist_planned_m" :> "Planned Dist to Plan (m)"
    @@ "tvd_at_td_m" :> "Well TVD at TD (m)"
    @@ "md_at_td_m" :> "Well MD at TD (m)"
    @@ "inc_at_td_deg" :> "Inc at TD (deg)"
    @@ "azimuth_at_td_deg" :> "Azimuth at TD (deg)"
    @@ "max_dls_actual_deg_per_30m" :> "Max DLS (deg/30m)"
    @@ "vs_at_td_m" :> "VS at TD (m)"
    @@ "dist_at_td_m" :> "Dist to Plan at TD (m)"

\* dict.get(key, default)
GetOr(d, key, default) == IF key \in DOMAIN d THEN d[key] ELSE default

\* _to_float after `s = str(value).strip()`: r is what float(s) gives.
FloatOrNone(value, s, r) ==
    IF value.t = "None" THEN PyNone
    ELSE IF s = "" THEN PyNone
    ELSE IF r.exc # "" THEN PyNone
    ELSE r.v

\* _to_float(value)
_to_float(value) == FloatOrNone(value, Strip(ToStr(value)), StrToFloat(ToStr(value)))

\* One `if ...: r.add_field_error(field, message)` statement.
Check(fails, field, message) == [fails |-> fails, field |-> field, message |-> message]

\* r after the statements of checks, in order
RECURSIVE AddFieldErrors(_, _)
AddFieldErrors(r, checks) ==
    IF checks = <<>> THEN r
    ELSE AddFieldErrors(IF Head(checks).fails
                        THEN add_field_error(r, Head(checks).field, Head(checks).message)
                        ELSE r,
                        Tail(checks))

\* The loop over REQUIRED_FIELDS
Step2Required(data) ==
    [i \in 1..Len(STEP2_REQUIRED_FIELDS) |->
        LET field_name == STEP2_REQUIRED_FIELDS[i]
            value == GetOr(data, field_name, PyStr(""))
        IN  Check(value.t = "None" \/ Strip(ToStr(value)) = "", field_name,
                  STEP2_FIELD_LABELS[field_name] \o " is required.")]

\* The calls of _require_number and of _optional_number, val[field] what
\* _to_float gave for the field.
Step2Numbers(data, fields, val) ==
    [i \in 1..Len(fields) |->
        Check(Strip(ToStr(GetOr(data, fields[i], PyStr("")))) # ""
                  /\ val[fields[i]].t = "None",
              fields[i], STEP2_FIELD_LABELS[fields[i]] \o " must be a valid number.")]

\* The planned checks
Step2Planned(val) ==
    LET Is(f) == val[f].t # "None"
        N(f) == val[f].n
        Num(f) == val[f].t # "None" /\ ~IsNaN(val[f])
    IN  <<Check(Num("kop_m") /\ N("kop_m") < 0, "kop_m",
                "KOP (m) must be greater than or equal to 0."),
          Check(Num("tvd_planned_m") /\ N("tvd_planned_m") <= 0, "tvd_planned_m",
                "Planned Well TVD (m) must be greater than 0."),
          Check(Num("md_planned_m") /\ N("md_planned_m") <= 0, "md_planned_m",
                "Planned Well MD (m) must be greater than 0."),
          Check(Num("md_planned_m") /\ Num("tvd_planned_m")
                    /\ N("md_planned_m") < N("tvd_planned_m"), "md_planned_m",
                "Planned Well MD (m) must be greater than or equal to Planned Well TVD (m)."),
          Check(Is("max_inc_planned_deg")
                    /\ ~(Num("max_inc_planned_deg") /\ 0 <= N("max_inc_planned_deg") /\ N("max_inc_planned_deg") <= 180000),
                "max_inc_planned_deg", "Planned Max Inc (deg) must be between 0 and 180."),
          Check(Is("azimuth_planned_deg")
                    /\ ~(Num("azimuth_planned_deg") /\ 0 <= N("azimuth_planned_deg") /\ N("azimuth_planned_deg") <= 360000),
                "azimuth_planned_deg", "Planned Azimuth (deg) must be between 0 and 360."),
          Check(Num("max_dls_planned_deg_per_30m") /\ N("max_dls_planned_deg_per_30m") < 0,
                "max_dls_planned_deg_per_30m",
                "Planned Max DLS (deg/30m) must be greater than or equal to 0."),
          Check(Num("vs_planned_m") /\ N("vs_planned_m") < 0, "vs_planned_m",
                "Planned VS (m) must be greater than or equal to 0."),
          Check(Num("dist_planned_m") /\ N("dist_planned_m") < 0, "dist_planned_m",
                "Planned Dist to Plan (m) must be greater than or equal to 0.")>>

\* The actual checks
Step2Actual(val) ==
    LET Is(f) == val[f].t # "None"
        N(f) == val[f].n
        Num(f) == val[f].t # "None" /\ ~IsNaN(val[f])
    IN  <<Check(Num("tvd_at_td_m") /\ N("tvd_at_td_m") <= 0, "tvd_at_td_m",
                "Well TVD at TD (m) must be greater than 0."),
          Check(Num("md_at_td_m") /\ N("md_at_td_m") <= 0, "md_at_td_m",
                "Well MD at TD (m) must be greater than 0."),
          Check(Num("md_at_td_m") /\ Num("tvd_at_td_m")
                    /\ N("md_at_td_m") < N("tvd_at_td_m"), "md_at_td_m",
                "Well MD at TD (m) must be greater than or equal to Well TVD at TD (m)."),
          Check(Is("inc_at_td_deg")
                    /\ ~(Num("inc_at_td_deg") /\ 0 <= N("inc_at_td_deg") /\ N("inc_at_td_deg") <= 180000),
                "inc_at_td_deg", "Inc at TD (deg) must be between 0 and 180."),
          Check(Is("azimuth_at_td_deg")
                    /\ ~(Num("azimuth_at_td_deg") /\ 0 <= N("azimuth_at_td_deg") /\ N("azimuth_at_td_deg") <= 360000),
                "azimuth_at_td_deg", "Azimuth at TD (deg) must be between 0 and 360."),
          Check(Num("max_dls_actual_deg_per_30m") /\ N("max_dls_actual_deg_per_30m") < 0,
                "max_dls_actual_deg_per_30m",
                "Max DLS (deg/30m) must be greater than or equal to 0."),
          Check(Num("vs_at_td_m") /\ N("vs_at_td_m") < 0, "vs_at_td_m",
                "VS at TD (m) must be greater than or equal to 0."),
          Check(Num("dist_at_td_m") /\ N("dist_at_td_m") < 0, "dist_at_td_m",
                "Dist to Plan at TD (m) must be greater than or equal to 0.")>>

\* validate_step2 after its _to_float calls, val[field] their results
Step2Result(data, val) ==
    AddFieldErrors(ValidationResult(TRUE),
                   Step2Required(data)
                   \o Step2Numbers(data, STEP2_REQUIRED_FIELDS, val)
                   \o Step2Planned(val)
                   \o Step2Numbers(data, STEP2_ACTUAL_FIELDS, val)
                   \o Step2Actual(val))

\* validate_step2(data)
validate_step2(data) ==
    Step2Result(data, [f \in DOMAIN STEP2_FIELD_LABELS |-> _to_float(Get(data, f))])

----------------------------------------------------------------------------
(* app/core/rules/step1_rules.py                                           *)

STEP1_REQUIRED_FIELDS ==
    <<"well_name", "operator", "contractor", "well_purpose", "well_type",
      "dd_well_type", "province", "rig_name">>

STEP1_FIELD_LABELS ==
    "well_name" :> "Well Name"
    @@ "operator" :> "Operator"
    @@ "contractor" :> "Contractor"
    @@ "well_purpose" :> "Well Purpose"
    @@ "well_type" :> "Well Type"
    @@ "dd_well_type" :> "DD Well Type"
    @@ "province" :> "Province"
    @@ "rig_name" :> "Rig Name"

_INVALID_PLACEHOLDER_VALUES ==
    {"SELECT OR ENTER MANUALLY", "SELECT FROM LIST", "AUTOMATICALLY GENERATED"}

WELL_KEY_FORMAT_MESSAGE ==
    "Well Name must end with a dash followed by digits, optionally followed by letters or digits (e.g., YAPRAKLI-4, YAPRAKLI-4S, YAPRAKLI-4ST, YAPRAKLI-1K2)."

\* The loop over REQUIRED_FIELDS
Step1Required(data) ==
    [i \in 1..Len(STEP1_REQUIRED_FIELDS) |->
        LET field_name == STEP1_REQUIRED_FIELDS[i]
            value_canon == canonical_text(GetOr(data, field_name, PyStr("")))
        IN  Check(value_canon = "" \/ value_canon \in _INVALID_PLACEHOLDER_VALUES,
                  field_name, STEP1_FIELD_LABELS[field_name] \o " is required.")]

\* The well key format check made whether or not a well name is given
Step1WellKey_without_name(well_key, well_name) ==
    <<Check(well_key # "" /\ ~is_well_key_format_ok(well_key),
            "well_name", WELL_KEY_FORMAT_MESSAGE)>>

\* The well key format check, well_key and well_name canonicalized
Step1WellKey(well_key, well_name) ==
    <<Check(well_name # "" /\ well_key # "" /\ ~is_well_key_format_ok(well_key),
            "well_name", WELL_KEY_FORMAT_MESSAGE)>>

\* validate_step1(data)
validate_step1(data) ==
    AddFieldErrors(ValidationResult(TRUE),
                   Step1Required(data)
                   \o Step1WellKey(canonical_well_name(GetOr(data, "well_key", PyStr(""))),
                                   canonical_well_name(GetOr(data, "well_name", PyStr("")))))

----------------------------------------------------------------------------
(* app/core/rules/hole_section_rules.py : option lists                     *)

MUD_MOTOR_BRANDS ==
    {"NOV", "DYNOMAX", "SLB", "BAKER", "HALLIBURTON", "WEATHERFORD", "JEREH"}

MUD_MOTOR_SIZES ==
    {"9 5/8\" PDM", "9 1/2\" PDM", "8\" PDM", "7\" PDM", "6 3/4\" PDM", "5\" PDM",
     "4 3/4\" PDM"}

BEND_ANGLES_DEG ==
    {"ZERO", "0.39", "0.78", "1.15", "1.50", "1.83", "2.12", "2.38", "2.60", "2.77",
     "2.89", "2.97", "3.00"}

LOBE_LIST == {"1/2", "2/3", "3/4", "4/5", "5/6", "6/7", "7/8", "8/9"}

STAGE_LIST == {"2", "3", "4", "5", "6", "7", "8", "8.3"}

BIT_BRANDS ==
    {"NOV", "SMITH", "BAKER", "HALLIBURTON", "WEATHERFORD", "ULTERA", "DBC", "VAREL",
     "NOVEL", "TECH DRILL", "DRILL STAR", "MATRIX", "TITAN", "GATES", "EASTERN",
     "LIBERTY"}

BIT_KINDS == {"PDC", "TRICONE", "BICENTER"}

CASING_OD_OPTIONS ==
    {"OPEN HOLE", "7\"", "8.625\"", "9.625\"", "10.750\"", "11.750\"", "13.375\"",
     "16\"", "20\""}

\* CASING_ID_BY_OD with the IDs of the 8.625" casing also under the 7" one.
CASING_ID_BY_OD_wide_7 ==
    [od \in CASING_OD_OPTIONS |->
        CASE od = "OPEN HOLE" -> {"OPEN HOLE"}
          [] od = "7\"" -> {"6.184\"", "6.276\"", "6.366\"", "7.921\"", "8.097\""}
          [] od = "8.625\"" -> {"7.921\"", "8.097\""}
          [] od = "9.625\"" -> {"8.755\"", "8.835\"", "8.921\""}
          [] od = "10.750\"" -> {"9.660\"", "9.850\""}
          [] od = "11.750\"" -> {"10.772\"", "10.920\""}
          [] od = "13.375\"" -> {"12.100\"", "12.347\""}
          [] od = "16\"" -> {"14.868\"", "15.124\""}
          [] od = "20\"" -> {"18.730\""}]

CASING_ID_BY_OD ==
    [od \in CASING_OD_OPTIONS |->
        CASE od = "OPEN HOLE" -> {"OPEN HOLE"}
          [] od = "7\"" -> {"6.184\"", "6.276\"", "6.366\""}
          [] od = "8.625\"" -> {"7.921\"", "8.097\""}
          [] od = "9.625\"" -> {"8.755\"", "8.835\"", "8.921\""}
          [] od = "10.750\"" -> {"9.660\"", "9.850\""}
          [] od = "11.750\"" -> {"10.772\"", "10.920\""}
          [] od = "13.375\"" -> {"12.100\"", "12.347\""}
          [] od = "16\"" -> {"14.868\"", "15.124\""}
          [] od = "20\"" -> {"18.730\""}]

CASING_ID_OPTIONS == UNION {CASING_ID_BY_OD[od] : od \in CASING_OD_OPTIONS}

MUD_TYPE_OPTIONS ==
    {"AIR", "AERATED", "BENTONITE", "CaCl2 POLYMER", "FOAM", "GEL",
     "HIGH-TEMPERATURE GEOTHERMAL", "KCL-POLYMER", "LIGNOSULFONATE", "NaCl POLYMER",
     "OIL BASE", "PHPA", "POLYMER", "SPUD", "SYNTHETIC BASE"}

----------------------------------------------------------------------------
(* app/core/rules/hole_section_rules.py : helpers                          *)
(* A helper that appends to `errors` returns [v, e]: its value and the    *)
(* messages it appended, in order.                                         *)

_is_blank(v) ==
    CASE v.t = "None" -> TRUE
      [] v.t = "str" -> Strip(v.s) = ""
      [] OTHER -> FALSE

_as_str(v) == IF v.t = "None" THEN "" ELSE Strip(ToStr(v))

\* The date strptime reads from the three parts of a string that holds two
\* separators: ys the year's, ms the month's and ds the day's.
DateOfParts(ys, ms, ds) ==
    LET \* %d also reads a space and one digit
        dd == IF Len(ds) = 2 /\ Head(ds) = " " THEN Tail(ds) ELSE ds
        y == DigitsToInt(ys)
        m == DigitsToInt(ms)
        d == DigitsToInt(dd)
        matches ==
            /\ Len(ys) = 4 /\ IsDigit(ys)
            /\ Len(ms) \in {1, 2} /\ IsDigit(ms) /\ 1 <= m /\ m <= 12
            /\ Len(dd) \in {1, 2} /\ IsDigit(dd) /\ 1 <= d /\ d <= 31
            /\ Len(ds) = 2 /\ Head(ds) = " " => dd # "0"
    IN  IF matches /\ y >= 1 /\ d <= DaysInMonth(y, m)
        THEN PyDate(y * 10000 + m * 100 + d)
        ELSE PyNone

\* s split at its separators, the places seps.
SplitDate(s, iso, seps) ==
    LET i1 == CHOOSE i \in seps : \A j \in seps : i <= j
        i2 == CHOOSE i \in seps : \A j \in seps : j <= i
        p1 == SubSeq(s, 1, i1 - 1)
        p3 == SubSeq(s, i2 + 1, Len(s))
    IN  IF Cardinality(seps) # 2 THEN PyNone
        ELSE DateOfParts(IF iso THEN p1 ELSE p3, SubSeq(s, i1 + 1, i2 - 1),
                         IF iso THEN p3 ELSE p1)

\* datetime.strptime(s, fmt).date() for the two formats of _parse_date:
\* iso is "%Y-%m-%d", otherwise "%d.%m.%Y".  PyNone when strptime raises.
StrpDate(s, iso) ==
    SplitDate(s, iso, {i \in 1..Len(s) : SubSeq(s, i, i) = (IF iso THEN "-" ELSE ".")})

\* _parse_date of a non-blank str s, iso what the first format reads of it.
FirstFormat(s, iso) == IF iso.t # "None" THEN iso ELSE StrpDate(s, FALSE)

\* _parse_date of a str, stripped.
DateOfStr(s) == IF s = "" THEN PyNone ELSE FirstFormat(s, StrpDate(s, TRUE))

_parse_date(v) ==
    CASE v.t = "None" -> PyNone
      [] v.t = "date" -> v
      [] v.t = "datetime" -> PyDate(v.n)
      [] v.t = "str" -> DateOfStr(Strip(v.s))
      [] OTHER -> PyNone

_require_choice(value, allowed, field_label) ==
    LET s == _as_str(value)
    IN  IF s = "" THEN [v |-> "", e |-> <<field_label \o " is required.">>]
        ELSE IF s \notin allowed
             THEN [v |-> "", e |-> <<field_label \o " must be selected from the list.">>]
             ELSE [v |-> s, e |-> <<>>]

_optional_choice(value, allowed, field_label) ==
    LET s == _as_str(value)
    IN  IF s = "" THEN [v |-> "", e |-> <<>>]
        ELSE IF s \notin allowed
             THEN [v |-> "", e |-> <<field_label \o " must be selected from the list.">>]
             ELSE [v |-> s, e |-> <<>>]

_require_text(value, field_label) ==
    LET s == _as_str(value)
    IN  IF s = "" THEN [v |-> "", e |-> <<field_label \o " is required.">>]
        ELSE [v |-> s, e |-> <<>>]

\* _optional_decimal, x what parse_decimal(_as_str(value)) gives.
OptionalDecimal(value, field_label, x) ==
    IF _is_blank(value) THEN [v |-> PyNone, e |-> <<>>]
    ELSE IF x.exc = "ValueError"
    THEN [v |-> PyNone, e |-> <<field_label \o " must be a valid number.">>]
    ELSE [v |-> x.v, e |-> <<>>]

_optional_decimal(value, field_label) ==
    OptionalDecimal(value, field_label, parse_decimal(_as_str(value)))

\* _require_decimal without the comparison against min_value.
_require_decimal_no_minimum(value, field_label, min_value, min_strict, empty_msg) ==
    IF _is_blank(value)
    THEN [v |-> PyNone,
          e |-> <<IF empty_msg # "" THEN empty_msg ELSE field_label \o " is required.">>]
    ELSE _optional_decimal(value, field_label)

\* _require_decimal, x what parse_decimal(_as_str(value)) gives; min_value
\* is PyNone or a float, empty_msg "" stands for None.
RequireDecimal(value, field_label, min_value, min_strict, empty_msg, x) ==
    IF _is_blank(value)
    THEN [v |-> PyNone,
          e |-> <<IF empty_msg # "" THEN empty_msg
                  ELSE field_label \o " is required.">>]
    ELSE IF x.exc = "ValueError"
    THEN [v |-> PyNone, e |-> <<field_label \o " must be a valid number.">>]
    ELSE IF min_value.t # "None" /\ min_strict /\ ~(~IsNaN(x.v) /\ x.v.n > min_value.n)
    THEN [v |-> PyNone,
          e |-> <<field_label \o " must be greater than "
                  \o FloatToStr(min_value.n) \o ".">>]
    ELSE IF min_value.t # "None" /\ ~min_strict /\ ~(~IsNaN(x.v) /\ x.v.n >= min_value.n)
    THEN [v |-> PyNone,
          e |-> <<field_label \o " must be " \o FloatToStr(min_value.n)
                  \o " or greater.">>]
    ELSE [v |-> x.v, e |-> <<>>]

\* _require_decimal(value, field_label, errors, min_value=, min_strict=,
\* empty_msg=)
_require_decimal(value, field_label, min_value, min_strict, empty_msg) ==
    RequireDecimal(value, field_label, min_value, min_strict, empty_msg,
                   parse_decimal(_as_str(value)))

\* _require_date, d what _parse_date(value) gives.
RequireDate(d, field_label, empty_msg) ==
    IF d.t = "None"
    THEN [v |-> PyNone,
          e |-> <<IF empty_msg # "" THEN empty_msg
                  ELSE field_label \o " is required.">>]
    ELSE [v |-> d, e |-> <<>>]

_require_date(value, field_label, empty_msg) ==
    RequireDate(_parse_date(value), field_label, empty_msg)

\* _require_time_hhmm, t what normalize_hhmm(_as_str(value)) gives.
RequireTime(value, field_label, empty_msg, t) ==
    IF _is_blank(value)
    THEN [v |-> PyNone,
          e |-> <<IF empty_msg # "" THEN empty_msg
                  ELSE field_label \o " is required.">>]
    ELSE IF t.exc = "ValueError"
    THEN [v |-> PyNone,
          e |-> <<field_label \o " must be in HH:MM format (24-hour).">>]
    ELSE [v |-> PyStr(t.v), e |-> <<>>]

_require_time_hhmm(value, field_label, empty_msg) ==
    RequireTime(value, field_label, empty_msg, normalize_hhmm(_as_str(value)))

\* int(v), as _parse_nozzles calls it under `except Exception`.
ToInt(v) ==
    CASE v.t = "int" -> Return(v.n)
      [] v.t = "float" ->
            Return(IF v.n < 0 THEN 0 - ((0 - v.n) \div 1000) ELSE v.n \div 1000)
      [] v.t = "str" -> StrToInt(v.s)
      [] OTHER -> Raise("TypeError")

\* _parse_nozzles(value): the list of NozzleLine, each [count, size_32nds].
_parse_nozzles(value) ==
    LET Line(it) ==
            LET zero == PyInt(0)
                c == IF it.k = "dict" /\ it.count.t = "missing" THEN zero ELSE it.count
                z == IF it.k # "dict" THEN it.size_32nds
                     ELSE IF it.size_32nds.t # "missing" THEN it.size_32nds
                     ELSE IF it.size.t # "missing" THEN it.size
                     ELSE zero
            IN  IF it.k = "NozzleLine"
                THEN <<[count |-> it.count.n, size_32nds |-> it.size_32nds.n]>>
                ELSE IF it.k \in {"tuple", "dict"}
                THEN IF ToInt(c).exc # "" \/ ToInt(z).exc # "" THEN <<>>
                     ELSE <<[count |-> ToInt(c).v, size_32nds |-> ToInt(z).v]>>
                ELSE <<>>
        RECURSIVE Out(_)
        Out(items) == IF items = <<>> THEN <<>> ELSE Line(Head(items)) \o Out(Tail(items))
    IN  IF value.t = "list" THEN Out(value.l) ELSE <<>>

----------------------------------------------------------------------------
(* validate_hole_section, one operator per block of the function.  A block *)
(* returns [errors, computed, raised]: the messages it appends to errors,  *)
(* the entries it writes to computed, and the exception that leaves it.    *)

Block(errors, computed) == [errors |-> errors, computed |-> computed, raised |-> ""]

\* MUD MOTOR-1
MudMotor1(data) ==
    LET mm1_brand_raw == Or(Get(data, "mud_motor1_brand"), Get(data, "mud_motor_brand"))
        mm1_size_raw == Or(Get(data, "mud_motor1_size"), Get(data, "mud_motor_size"))
        mm1_sleeve_raw == Or(Get(data, "mud_motor1_sleeve_stb_gauge_in"),
                             Get(data, "mud_motor_sleeve_stb_gauge_in"))
        mm1_bend_raw == Or(Get(data, "mud_motor1_bend_angle_deg"),
                           Get(data, "mud_motor_bend_angle_deg"))
        mm1_lobe_raw == Or(Get(data, "mud_motor1_lobe"), Get(data, "mud_motor_lobe"))
        mm1_stage_raw == Or(Get(data, "mud_motor1_stage"), Get(data, "mud_motor_stage"))
        mm1_ibs_raw == Or(Get(data, "mud_motor1_ibs_gauge_in"),
                          Get(data, "mud_motor_ibs_gauge_in"))
        dd_well_type == _as_str(Get(data, "dd_well_type"))
        mm1_optional == dd_well_type = "ONLY INCLINATION"
        brand == _require_choice(mm1_brand_raw, MUD_MOTOR_BRANDS, "MUD MOTOR-1 / BRAND")
        size == _require_choice(mm1_size_raw, MUD_MOTOR_SIZES, "MUD MOTOR-1 / SIZE")
        sleeve == _require_decimal(mm1_sleeve_raw, "MUD MOTOR-1 / SLEEVE STB GAUGE (IN)",
                    PyNone, FALSE,
                    "MUD MOTOR-1 / SLEEVE STB GAUGE (IN) is required (e.g., 12.125).")
        bend == _require_choice(mm1_bend_raw, BEND_ANGLES_DEG,
                                "MUD MOTOR-1 / BEND ANGLE (DEG)")
        lobe == _require_choice(mm1_lobe_raw, LOBE_LIST, "MUD MOTOR-1 / LOBE")
        stage == _require_choice(mm1_stage_raw, STAGE_LIST, "MUD MOTOR-1 / STAGE")
        ibs == _optional_decimal(mm1_ibs_raw, "MUD MOTOR-1 / IBS GAUGE (IN)")
    IN  IF /\ mm1_optional
           /\ _is_blank(mm1_brand_raw) /\ _is_blank(mm1_size_raw)
           /\ _is_blank(mm1_sleeve_raw) /\ _is_blank(mm1_bend_raw)
           /\ _is_blank(mm1_lobe_raw) /\ _is_blank(mm1_stage_raw)
           /\ _is_blank(mm1_ibs_raw)
        THEN Block(<<>>,
                   "mud_motor1_brand" :> PyStr("")
                   @@ "mud_motor1_size" :> PyStr("")
                   @@ "mud_motor1_sleeve_stb_gauge_in" :> PyNone
                   @@ "mud_motor1_bend_angle_deg" :> PyStr("")
                   @@ "mud_motor1_lobe" :> PyStr("")
                   @@ "mud_motor1_stage" :> PyStr("")
                   @@ "mud_motor1_ibs_gauge_in" :> PyNone)
        ELSE Block(brand.e \o size.e \o sleeve.e \o bend.e \o lobe.e \o stage.e \o ibs.e,
                   "mud_motor1_brand" :> PyStr(brand.v)
                   @@ "mud_motor1_size" :> PyStr(size.v)
                   @@ "mud_motor1_sleeve_stb_gauge_in" :> sleeve.v
                   @@ "mud_motor1_bend_angle_deg" :> PyStr(bend.v)
                   @@ "mud_motor1_lobe" :> PyStr(lobe.v)
                   @@ "mud_motor1_stage" :> PyStr(stage.v)
                   @@ "mud_motor1_ibs_gauge_in" :> ibs.v)

\* mm2_has_other with the two gauges left out of the list.
mm2_has_other_without_gauges(data) ==
    \E key \in {"mud_motor2_size", "mud_motor2_bend_angle_deg", "mud_motor2_lobe",
                "mud_motor2_stage"} : _as_str(Get(data, key)) # ""

\* mm2_has_other: a motor-2 field other than the brand has content.
mm2_has_other(data) ==
    \E key \in {"mud_motor2_size", "mud_motor2_bend_angle_deg", "mud_motor2_lobe",
                "mud_motor2_stage", "mud_motor2_sleeve_stb_gauge_in",
                "mud_motor2_ibs_gauge_in"} : _as_str(Get(data, key)) # ""

\* MUD MOTOR-2
MudMotor2(data) ==
    LET mm2_brand_raw == _as_str(Get(data, "mud_motor2_brand"))
        mm2_size_raw == _as_str(Get(data, "mud_motor2_size"))
        mm2_sleeve_raw == Get(data, "mud_motor2_sleeve_stb_gauge_in")
        mm2_bend_raw == _as_str(Get(data, "mud_motor2_bend_angle_deg"))
        mm2_lobe_raw == _as_str(Get(data, "mud_motor2_lobe"))
        mm2_stage_raw == _as_str(Get(data, "mud_motor2_stage"))
        mm2_ibs_raw == Get(data, "mud_motor2_ibs_gauge_in")
        brand == _require_choice(PyStr(mm2_brand_raw), MUD_MOTOR_BRANDS,
                                 "MUD MOTOR-2 / BRAND")
        size == _require_choice(PyStr(mm2_size_raw), MUD_MOTOR_SIZES, "MUD MOTOR-2 / SIZE")
        sleeve2 == _require_decimal(mm2_sleeve_raw, "MUD MOTOR-2 / SLEEVE STB GAUGE (IN)",
                    PyNone, FALSE,
                    "MUD MOTOR-2 / SLEEVE STB GAUGE (IN) is required (e.g., 12.125).")
        bend == _require_choice(PyStr(mm2_bend_raw), BEND_ANGLES_DEG,
                                "MUD MOTOR-2 / BEND ANGLE (DEG)")
        lobe == _require_choice(PyStr(mm2_lobe_raw), LOBE_LIST, "MUD MOTOR-2 / LOBE")
        stage == _require_choice(PyStr(mm2_stage_raw), STAGE_LIST, "MUD MOTOR-2 / STAGE")
        ibs == _optional_decimal(mm2_ibs_raw, "MUD MOTOR-2 / IBS GAUGE (IN)")
    IN  IF mm2_brand_raw # "" \/ mm2_has_other(data)
        THEN Block((IF mm2_brand_raw = ""
                    THEN <<"MUD MOTOR-2 / BRAND is required when MUD MOTOR-2 fields are provided.">>
                    ELSE <<>>)
                   \o brand.e \o size.e \o sleeve2.e \o bend.e \o lobe.e \o stage.e \o ibs.e,
                   "mud_motor2_brand" :> PyStr(brand.v)
                   @@ "mud_motor2_size" :> PyStr(size.v)
                   @@ "mud_motor2_sleeve_stb_gauge_in" :> sleeve2.v
                   @@ "mud_motor2_bend_angle_deg" :> PyStr(bend.v)
                   @@ "mud_motor2_lobe" :> PyStr(lobe.v)
                   @@ "mud_motor2_stage" :> PyStr(stage.v)
                   @@ "mud_motor2_ibs_gauge_in" :> ibs.v)
        ELSE Block(<<>>,
                   "mud_motor2_brand" :> PyStr("")
                   @@ "mud_motor2_size" :> PyStr("")
                   @@ "mud_motor2_sleeve_stb_gauge_in" :> PyNone
                   @@ "mud_motor2_bend_angle_deg" :> PyStr("")
                   @@ "mud_motor2_lobe" :> PyStr("")
                   @@ "mud_motor2_stage" :> PyStr("")
                   @@ "mud_motor2_ibs_gauge_in" :> PyNone)

\* The nozzle part of a bit block: `if not nozzles: ... else: try: ...`,
\* tfa what tfa_from_nozzles(nozzles) gives.  bit is "1" or "2"; an exception
\* other than ValueError leaves the block.
\* The nozzle part of a bit block without the error for an empty list
NozzlesBlock_empty_allowed(bit, nozzles, tfa) ==
    LET label == "BIT-" \o bit \o " / NOZZLES are "
        key == "bit" \o bit
    IN  IF nozzles = <<>>
        THEN Block(<<>>, [k \in {} |-> PyNone])
        ELSE IF tfa.exc = "ValueError"
        THEN Block(<<label \o "invalid. Please reselect nozzles.">>,
                   (key \o "_tfa_in2") :> PyNone
                   @@ (key \o "_nozzle_summary") :> PyStr(nozzle_summary(nozzles)))
        ELSE IF tfa.exc # ""
        THEN [errors |-> <<>>, computed |-> [k \in {} |-> PyNone], raised |-> tfa.exc]
        ELSE Block(<<>>,
                   (key \o "_tfa_in2") :> tfa.v
                   @@ (key \o "_nozzle_summary") :> PyStr(nozzle_summary(nozzles)))

NozzlesBlock(bit, nozzles, tfa) ==
    LET label == "BIT-" \o bit \o " / NOZZLES are "
        key == "bit" \o bit
    IN  IF nozzles = <<>>
        THEN Block(<<label \o "required. Please select nozzles to calculate TFA.">>,
                   [k \in {} |-> PyNone])
        ELSE IF tfa.exc = "ValueError"
        THEN Block(<<label \o "invalid. Please reselect nozzles.">>,
                   (key \o "_tfa_in2") :> PyNone
                   @@ (key \o "_nozzle_summary") :> PyStr(nozzle_summary(nozzles)))
        ELSE IF tfa.exc # ""
        THEN [errors |-> <<>>, computed |-> [k \in {} |-> PyNone], raised |-> tfa.exc]
        ELSE Block(<<>>,
                   (key \o "_tfa_in2") :> tfa.v
                   @@ (key \o "_nozzle_summary") :> PyStr(nozzle_summary(nozzles)))

BitNozzles(bit, nozzles) == NozzlesBlock(bit, nozzles, tfa_from_nozzles(nozzles))

\* BIT-1
Bit1(data) ==
    LET bit1_brand_raw == Or(Get(data, "bit1_brand"), Get(data, "bit_brand"))
        bit1_kind_raw == Or(Get(data, "bit1_kind"), Get(data, "bit_kind"))
        bit1_type_raw == Or(Get(data, "bit1_type"), Get(data, "bit_type"))
        bit1_iadc_raw == Or(Get(data, "bit1_iadc"), Get(data, "bit_iadc"))
        bit1_serial_raw == Or(Get(data, "bit1_serial"), Get(data, "bit_serial"))
        bit1_nozzles == _parse_nozzles(Or(Get(data, "bit1_nozzles"),
                                          Get(data, "bit_nozzles")))
        brand == _require_choice(bit1_brand_raw, BIT_BRANDS, "BIT-1 / BRAND")
        kind == _require_choice(bit1_kind_raw, BIT_KINDS, "BIT-1 / PDC/TRICONE")
        type == _require_text(bit1_type_raw, "BIT-1 / TYPE")
        serial == _require_text(bit1_serial_raw, "BIT-1 / SERIAL")
        noz == BitNozzles("1", bit1_nozzles)
    IN  [errors |-> brand.e \o kind.e \o type.e \o serial.e \o noz.errors,
         computed |-> "bit1_brand" :> PyStr(brand.v)
                      @@ "bit1_kind" :> PyStr(kind.v)
                      @@ "bit1_type" :> PyStr(type.v)
                      @@ "bit1_iadc" :> PyStr(_as_str(bit1_iadc_raw))
                      @@ "bit1_serial" :> PyStr(serial.v)
                      @@ noz.computed
                      @@ "bit1_nozzles" :> PyList(bit1_nozzles),
         raised |-> noz.raised]

\* bit2_has_other with the IADC code left out of the list.
bit2_has_other_without_iadc(data) ==
    \/ \E key \in {"bit2_kind", "bit2_type", "bit2_serial"} :
            _as_str(Get(data, key)) # ""
    \/ _parse_nozzles(Get(data, "bit2_nozzles")) # <<>>

\* bit2_has_other: a bit-2 field other than the brand has content.
bit2_has_other(data) ==
    \/ \E key \in {"bit2_kind", "bit2_type", "bit2_iadc", "bit2_serial"} :
            _as_str(Get(data, key)) # ""
    \/ _parse_nozzles(Get(data, "bit2_nozzles")) # <<>>

\* BIT-2
Bit2(data) ==
    LET bit2_brand_raw == _as_str(Get(data, "bit2_brand"))
        bit2_kind_raw == _as_str(Get(data, "bit2_kind"))
        bit2_type_raw == _as_str(Get(data, "bit2_type"))
        bit2_iadc_raw == _as_str(Get(data, "bit2_iadc"))
        bit2_serial_raw == _as_str(Get(data, "bit2_serial"))
        bit2_nozzles == _parse_nozzles(Get(data, "bit2_nozzles"))
        brand == _require_choice(PyStr(bit2_brand_raw), BIT_BRANDS, "BIT-2 / BRAND")
        kind == _require_choice(PyStr(bit2_kind_raw), BIT_KINDS, "BIT-2 / PDC/TRICONE")
        type == _require_text(PyStr(bit2_type_raw), "BIT-2 / TYPE")
        serial == _require_text(PyStr(bit2_serial_raw), "BIT-2 / SERIAL")
        noz == BitNozzles("2", bit2_nozzles)
    IN  IF bit2_brand_raw # "" \/ bit2_has_other(data)
        THEN [errors |-> (IF bit2_brand_raw = ""
                          THEN <<"BIT-2 / BRAND is required when BIT-2 fields are provided.">>
                          ELSE <<>>)
                         \o brand.e \o kind.e \o type.e \o serial.e \o noz.errors,
              computed |-> "bit2_brand" :> PyStr(brand.v)
                           @@ "bit2_kind" :> PyStr(kind.v)
                           @@ "bit2_type" :> PyStr(type.v)
                           @@ "bit2_iadc" :> PyStr(bit2_iadc_raw)
                           @@ "bit2_serial" :> PyStr(serial.v)
                           @@ noz.computed
                           @@ "bit2_nozzles" :> PyList(bit2_nozzles),
              raised |-> noz.raised]
        ELSE Block(<<>>,
                   "bit2_brand" :> PyStr("")
                   @@ "bit2_kind" :> PyStr("")
                   @@ "bit2_type" :> PyStr("")
                   @@ "bit2_iadc" :> PyStr("")
                   @@ "bit2_serial" :> PyStr("")
                   @@ "bit2_nozzles" :> PyList(bit2_nozzles))

personnel_keys ==
    <<"personnel_day_dd_1", "personnel_day_dd_2", "personnel_day_dd_3",
      "personnel_night_dd_1", "personnel_night_dd_2", "personnel_night_dd_3",
      "personnel_day_mwd_1", "personnel_day_mwd_2", "personnel_day_mwd_3",
      "personnel_night_mwd_1", "personnel_night_mwd_2", "personnel_night_mwd_3">>

\* PERSONNEL, the first DAY DD slot required
Personnel_first_slot_required(data) ==
    LET personnel_vals(i) == _as_str(Get(data, personnel_keys[i]))
    IN  Block(IF personnel_vals(1) = ""
              THEN <<"PERSONNEL: At least one of DAY DD, NIGHT DD, DAY MWD, NIGHT MWD must be provided.">>
              ELSE <<>>,
              [k \in {personnel_keys[i] : i \in 1..Len(personnel_keys)} |->
                  PyStr(_as_str(Get(data, k)))])

\* PERSONNEL
Personnel(data) ==
    LET personnel_vals(i) == _as_str(Get(data, personnel_keys[i]))
    IN  Block(IF \A i \in 1..Len(personnel_keys) : personnel_vals(i) = ""
              THEN <<"PERSONNEL: At least one of DAY DD, NIGHT DD, DAY MWD, NIGHT MWD must be provided.">>
              ELSE <<>>,
              [k \in {personnel_keys[i] : i \in 1..Len(personnel_keys)} |->
                  PyStr(_as_str(Get(data, k)))])

\* INFO
Info(data) ==
    LET casing_od == _require_choice(Get(data, "info_casing_od"), CASING_OD_OPTIONS,
                                     "INFO / CASING OD")
        casing_id == _require_choice(Get(data, "info_casing_id"), CASING_ID_OPTIONS,
                                     "INFO / CASING ID")
        \* CASING_ID_BY_OD.get(casing_od, ())
        allowed_ids == IF casing_od.v \in DOMAIN CASING_ID_BY_OD
                       THEN CASING_ID_BY_OD[casing_od.v] ELSE {}
        pairing == IF casing_od.v # "" /\ casing_id.v # "" /\ casing_id.v \notin allowed_ids
                   THEN <<"INFO / CASING ID is not valid for the selected CASING OD.">>
                   ELSE <<>>
        required_shoe ==
            _require_decimal(Get(data, "info_casing_shoe"), "INFO / CASING SHOE (METER)",
                PyFloat(0), TRUE,
                "INFO / CASING SHOE (METER) is required and must be greater than 0.")
        shoe == IF casing_od.v # "" /\ casing_id.v # ""
                   /\ casing_od.v = "OPEN HOLE" /\ casing_id.v = "OPEN HOLE"
                THEN [v |-> PyFloat(0), e |-> <<>>]
                ELSE required_shoe
        mud_type == _require_choice(Get(data, "info_mud_type"), MUD_TYPE_OPTIONS,
                                    "INFO / MUD TYPE")
        tvd == _require_decimal(Get(data, "info_section_tvd"), "INFO / SECTION TVD (METER)",
                PyFloat(0), TRUE,
                "INFO / SECTION TVD (METER) is required and must be greater than 0.")
        md == _require_decimal(Get(data, "info_section_md"), "INFO / SECTION MD (METER)",
                PyFloat(0), TRUE,
                "INFO / SECTION MD (METER) is required and must be greater than 0.")
    IN  Block(casing_od.e \o casing_id.e \o pairing \o shoe.e \o mud_type.e \o tvd.e \o md.e,
              "info_casing_shoe" :> shoe.v
              @@ "info_mud_type" :> PyStr(mud_type.v)
              @@ "info_section_tvd" :> tvd.v
              @@ "info_section_md" :> md.v)

\* run_fields: (key, label, min_strict, empty_msg); min_value is 0.0 in all.
run_fields ==
    LET Zero(label) == "0 or a greater number is required for TIME ANALYSIS / "
                       \o label \o "."
        F(key, label) == [key |-> key, label |-> label, min_strict |-> FALSE,
                          empty_msg |-> Zero(label)]
    IN  <<[key |-> "ta_standby_time_hrs", label |-> "STANDBY TIME (HRS)",
           min_strict |-> TRUE,
           empty_msg |-> "TIME ANALYSIS / STANDBY TIME (HRS) is required and must be greater than 0."],
          F("ta_ru_time_hrs", "R/U TIME (HRS)"),
          F("ta_tripping_time_hrs", "TRIPPING TIME (HRS)"),
          F("ta_circulation_time_hrs", "CIRCULATION TIME (HRS)"),
          F("ta_rotary_time_hrs", "ROTARY TIME (HRS)"),
          F("ta_rotary_meters", "ROTARY (METER)"),
          F("ta_sliding_time_hrs", "SLIDING TIME (HRS)"),
          F("ta_sliding_meters", "SLIDING (METER)"),
          F("ta_npt_due_to_rig_hrs", "NPT DUE TO RIG (HRS)"),
          F("ta_npt_due_to_motor_hrs", "NPT DUE TO MOTOR (HRS)"),
          F("ta_npt_due_to_mwd_hrs", "NPT DUE TO MWD (HRS)"),
          F("ta_brt_hrs", "BRT (HRS)")>>

\* _run_value(key, run)
\* _run_value preferring the legacy key
_run_value_legacy_first(data, key, run) ==
    IF run = 1
    THEN IF Get(data, key).t # "None" THEN Get(data, key)
         ELSE Get(data, key \o "_run1")
    ELSE Get(data, key \o "_run" \o IntToStr(run))

\* _run_value(key, run)
_run_value(data, key, run) ==
    IF run = 1
    THEN IF Get(data, key \o "_run1").t # "None" THEN Get(data, key \o "_run1")
         ELSE Get(data, key)
    ELSE Get(data, key \o "_run" \o IntToStr(run))

\* _run_has_any looking at the first field of the run only.
_run_has_any_first_field(data, run) ==
    ~_is_blank(_run_value(data, run_fields[1].key, run))

\* _run_has_any(run)
_run_has_any(data, run) ==
    \E i \in 1..Len(run_fields) : ~_is_blank(_run_value(data, run_fields[i].key, run))

\* The body of the loop over run_fields: what it stores in
\* run_values[run][key], as [v, e], for the field run_fields[i].
RunField(data, run, i, required) ==
    LET f == run_fields[i]
        raw == _run_value(data, f.key, run)
        run_label == f.label \o " (RUN-" \o IntToStr(run) \o ")"
        field_label == "TIME ANALYSIS / " \o run_label
    IN  IF required
        THEN _require_decimal(raw, field_label, PyFloat(0), f.min_strict,
                 Replace(Replace(f.empty_msg, "TIME ANALYSIS / ", "TIME ANALYSIS / "),
                         f.label, run_label))
        ELSE _optional_decimal(raw, field_label)

\* One turn of the loop `for run in (1, 2, 3)`, `required` computed first.
RunValues(data, run, required) ==
    [i \in 1..Len(run_fields) |-> RunField(data, run, i, required)]

\* run_values after the loop.
AllRunValues(data) ==
    [run \in 1..3 |-> RunValues(data, run, run = 1 \/ _run_has_any(data, run))]

\* sum(v for v in values if v is not None) of floats; int 0 when none is.
SumPresent(values) ==
    LET RECURSIVE Sum(_)
        Sum(vs) == IF vs = <<>> THEN 0
                   ELSE (IF Head(vs).t = "None" THEN 0 ELSE Head(vs).n) + Sum(Tail(vs))
    IN  IF \A i \in 1..Len(values) : values[i].t = "None" THEN PyInt(0)
        ELSE PyFloat(Sum(values))

\* The %EFF DRILLING rule of the validator, for a drilling time and a BRT
\* that are both present.
EffDrilling(tdt, brt) ==
    IF brt.n = 0 /\ tdt.n = 0 THEN PyFloat(0)
    ELSE IF brt.n > 0
         THEN eff_drilling_percent(tdt, brt)
         ELSE PyNone

\* TIME ANALYSIS: the four date and time fields, each as [v, e].
TimeFields(data) ==
    [call_out_date |->
        _require_date(Get(data, "ta_call_out_date"), "TIME ANALYSIS / CALL OUT DATE",
            "TIME ANALYSIS / CALL OUT DATE is required. "
            \o "If the prev. sec. isn't released, select the day after the last invoice date."),
     crew_mob_time |->
        _require_time_hhmm(Get(data, "ta_crew_mob_time"), "TIME ANALYSIS / CREW MOB TIME",
            "TIME ANALYSIS / CREW MOB TIME is required (e.g., 16:30, 24:00, 00:00)."),
     release_date |->
        _require_date(Get(data, "ta_release_date"), "TIME ANALYSIS / RELEASE DATE",
            "TIME ANALYSIS / RELEASE DATE is required. Important: If not released, choose the latest invoice date."),
     release_time |->
        _require_time_hhmm(Get(data, "ta_release_time"), "TIME ANALYSIS / RELEASE TIME",
            "TIME ANALYSIS / RELEASE TIME is required. Important: If not released, use 00:00 as the time value.")]

\* run_values[run].get(key)
RunValue(run_values, run, key) ==
    run_values[run][CHOOSE i \in 1..Len(run_fields) : run_fields[i].key = key].v

\* total_drilling_time_runs with a missing operand counted as 0
TotalDrillingTimeRuns_none_as_zero(run_values) ==
    [run \in 1..3 |->
        LET rt == RunValue(run_values, run, "ta_rotary_time_hrs")
            st == RunValue(run_values, run, "ta_sliding_time_hrs")
        IN  IF rt.t # "None" \/ st.t # "None"
            THEN PyFloat((IF rt.t # "None" THEN rt.n ELSE 0)
                         + (IF st.t # "None" THEN st.n ELSE 0))
            ELSE PyNone]

\* total_drilling_time_runs after its loop
TotalDrillingTimeRuns(run_values) ==
    [run \in 1..3 |->
        LET rt == RunValue(run_values, run, "ta_rotary_time_hrs")
            st == RunValue(run_values, run, "ta_sliding_time_hrs")
        IN  IF rt.t # "None" /\ st.t # "None"
            THEN total_drilling_time_hours(rt, st) ELSE PyNone]

\* total_drilling_m_runs after its loop
TotalDrillingMeterRuns(run_values) ==
    [run \in 1..3 |->
        LET rm == RunValue(run_values, run, "ta_rotary_meters")
            sm == RunValue(run_values, run, "ta_sliding_meters")
        IN  IF rm.t # "None" /\ sm.t # "None"
            THEN total_drilling_meters(rm, sm) ELSE PyNone]

\* MOB TO RELEASE with the catch-all left to the failure of
\* mob_to_release_hours alone.
MobToReleaseOf_silent_when_incomplete(fields, mtr) ==
    IF /\ Truthy(fields.call_out_date.v) /\ Truthy(fields.crew_mob_time.v)
       /\ Truthy(fields.release_date.v) /\ Truthy(fields.release_time.v)
    THEN IF mtr.exc = "ValueError"
         THEN [v |-> PyNone,
               e |-> <<"MOB TO RELEASE is blank. Please verify all date and time inputs.">>]
         ELSE [v |-> mtr.v, e |-> <<>>]
    ELSE [v |-> PyNone, e |-> <<>>]

\* MOB TO RELEASE, as [v, e]; mtr is what mob_to_release_hours gives for the
\* four fields.
MobToReleaseOf(fields, mtr) ==
    IF /\ Truthy(fields.call_out_date.v) /\ Truthy(fields.crew_mob_time.v)
       /\ Truthy(fields.release_date.v) /\ Truthy(fields.release_time.v)
    THEN IF mtr.exc = "ValueError"
         THEN [v |-> PyNone,
               e |-> <<"MOB TO RELEASE is blank. Please verify all date and time inputs.">>]
         ELSE [v |-> mtr.v, e |-> <<>>]
    ELSE [v |-> PyNone,
          e |-> <<"MOB TO RELEASE is blank. Please verify all date and time inputs.">>]

MobToRelease(fields) ==
    MobToReleaseOf(fields,
        mob_to_release_hours(fields.call_out_date.v.n, fields.crew_mob_time.v.s,
                             fields.release_date.v.n, fields.release_time.v.s))

\* TIME ANALYSIS from the totals on, given what the earlier statements of
\* the block left in their variables.
TimeAnalysisOf(fields, run_values, total_drilling_time_runs, total_drilling_m_runs, mob) ==
    LET RECURSIVE Cat(_)
        Cat(es) == IF es = <<>> THEN <<>> ELSE Head(es).e \o Cat(Tail(es))
        run_errors == Cat(run_values[1]) \o Cat(run_values[2]) \o Cat(run_values[3])
        total_drilling_time_total ==
            IF \E run \in 1..3 : total_drilling_time_runs[run].t # "None"
            THEN SumPresent(total_drilling_time_runs) ELSE PyNone
        total_drilling_m_total ==
            IF \E run \in 1..3 : total_drilling_m_runs[run].t # "None"
            THEN SumPresent(total_drilling_m_runs) ELSE PyNone
        eff_runs ==
            [run \in 1..3 |->
                LET brt == RunValue(run_values, run, "ta_brt_hrs")
                    tdt == total_drilling_time_runs[run]
                IN  IF tdt.t # "None" /\ brt.t # "None" THEN EffDrilling(tdt, brt)
                    ELSE PyNone]
        brt_total == SumPresent([run \in 1..3 |-> RunValue(run_values, run, "ta_brt_hrs")])
        eff_total == IF total_drilling_time_total.t # "None"
                     THEN EffDrilling(total_drilling_time_total, brt_total)
                     ELSE PyNone
        PerRun(prefix, values) ==
            [k \in {prefix \o IntToStr(run) : run \in 1..3} |->
                values[CHOOSE run \in 1..3 : k = prefix \o IntToStr(run)]]
    IN  Block(fields.call_out_date.e \o fields.crew_mob_time.e \o fields.release_date.e
              \o fields.release_time.e \o run_errors \o mob.e,
              PerRun("ta_total_drilling_time_hrs_run", total_drilling_time_runs)
              @@ PerRun("ta_total_drilling_meters_run", total_drilling_m_runs)
              @@ "ta_total_drilling_time_hrs_total" :> total_drilling_time_total
              @@ "ta_total_drilling_meters_total" :> total_drilling_m_total
              @@ "ta_mob_to_release_hrs" :> mob.v
              @@ PerRun("ta_eff_drilling_pct_run", eff_runs)
              @@ "ta_eff_drilling_pct_total" :> eff_total
              @@ (IF Truthy(fields.crew_mob_time.v)
                  THEN "ta_crew_mob_time_norm" :> fields.crew_mob_time.v
                  ELSE [k \in {} |-> PyNone])
              @@ (IF Truthy(fields.release_time.v)
                  THEN "ta_release_time_norm" :> fields.release_time.v
                  ELSE [k \in {} |-> PyNone]))

\* The derived fields of TIME ANALYSIS, from the fields and the run values.
Derived(fields, run_values) ==
    TimeAnalysisOf(fields, run_values, TotalDrillingTimeRuns(run_values),
                   TotalDrillingMeterRuns(run_values), MobToRelease(fields))

\* TIME ANALYSIS (runs + derived fields)
TimeAnalysis(data) == Derived(TimeFields(data), AllRunValues(data))

\* The result validate_hole_section returns for the outcomes of its blocks,
\* in order.  An exception that leaves a block leaves the function: nothing
\* is returned.
ResultOf(blocks) ==
    LET RECURSIVE Errors(_)
        Errors(bs) == IF bs = <<>> THEN <<>> ELSE Head(bs).errors \o Errors(Tail(bs))
        RECURSIVE Computed(_)
        Computed(bs) == IF bs = <<>> THEN [k \in {} |-> PyNone]
                        ELSE Head(bs).computed @@ Computed(Tail(bs))
        raising == {i \in 1..Len(blocks) : blocks[i].raised # ""}
        first == CHOOSE i \in raising : \A j \in raising : i <= j
        errors == Errors(blocks)
    IN  IF raising # {}
        THEN [raised |-> blocks[first].raised, ok |-> FALSE, errors |-> <<>>,
              computed |-> [k \in {} |-> PyNone]]
        ELSE [raised |-> "", ok |-> Len(errors) = 0, errors |-> errors,
              computed |-> Computed(blocks)]

\* validate_hole_section(section_data): [raised, ok, errors, computed].
validate_hole_section(data) ==
    ResultOf(<<MudMotor1(data), MudMotor2(data), Bit1(data), Bit2(data),
               Personnel(data), Info(data), TimeAnalysis(data)>>)

----------------------------------------------------------------------------
(* Bounds and input sets                                                   *)

\* Longest text handed to canonical_text.
MaxTextLen == 5
\* Most messages a ValidationResult list holds.
MaxMessages == 2

\* A lower-case letter, an accented letter, a space, a tab, a dash, a
\* separator and a character canonical_text deletes.
TEXT_ALPHABET == {"a", "ü", " ", "\t", "-", "/", "@"}

RECURSIVE StringsUpTo(_, _)
StringsUpTo(alphabet, n) ==
    IF n = 0 THEN {""}
    ELSE LET shorter == StringsUpTo(alphabet, n - 1)
         IN  shorter \cup {x \o c : x \in shorter, c \in alphabet}

OBJECTS == {"r", "other"}
MESSAGES == {"", "msg"}
FIELD_NAMES == {"", "well_name"}

\* What a variable holds in a specification that does not use it.
NoObjects == [o \in OBJECTS |-> Unmade]
NoData == [k \in {} |-> PyNone]
NoResult == [raised |-> "", ok |-> FALSE, errors |-> <<>>, computed |-> NoData]

\* No hole-section form is open.
NoForm == widgets = NoData /\ click = "" /\ calls = <<>> /\ store = PyNone

----------------------------------------------------------------------------
(* canonical_text, called on a text and then on its own result             *)

InitCanonical ==
    /\ pc = "call"
    /\ NoForm
    /\ text \in StringsUpTo(TEXT_ALPHABET, MaxTextLen)
    /\ ctext = ""
    /\ vr = NoObjects /\ section_data = NoData /\ result = NoResult

Canonicalize ==
    /\ pc = "call"
    /\ ctext' = canonical_text(PyStr(text))
    /\ pc' = "done"
    /\ UNCHANGED <<widgets, click, calls, store, text, vr, section_data, result>>

Recanonicalize ==
    /\ pc = "done"
    /\ text' = ctext
    /\ ctext' = canonical_text(PyStr(ctext))
    /\ pc' = "again"
    /\ UNCHANGED <<widgets, click, calls, store, vr, section_data, result>>

NextCanonical == Canonicalize \/ Recanonicalize

SpecCanonical == InitCanonical /\ [][NextCanonical]_vars

----------------------------------------------------------------------------
(* ValidationResult objects under any sequence of calls                    *)

InitVR ==
    /\ pc = "call"
    /\ NoForm
    /\ vr = NoObjects
    /\ text = "" /\ ctext = "" /\ section_data = NoData /\ result = NoResult

Fits(r) == Len(r.errors) <= MaxMessages /\ Len(r.warnings) <= MaxMessages

Bind(o, r) ==
    /\ Fits(r)
    /\ vr' = [vr EXCEPT ![o] = r]
    /\ UNCHANGED <<widgets, click, calls, store, pc, text, ctext, section_data, result>>

Construct(o) == Bind(o, ValidationResult(TRUE))

OkResult(o) == Bind(o, ok_result)

ErrorResult(o) ==
    \E m \in MESSAGES, f \in FIELD_NAMES : Bind(o, error_result(m, f))

AddError(o) ==
    /\ vr[o].made
    /\ \E m \in MESSAGES : Bind(o, add_error(vr[o], m))

AddFieldError(o) ==
    /\ vr[o].made
    /\ \E m \in MESSAGES, f \in FIELD_NAMES : Bind(o, add_field_error(vr[o], f, m))

AddWarning(o) ==
    /\ vr[o].made
    /\ \E m \in MESSAGES : Bind(o, add_warning(vr[o], m))

Merge(o) ==
    /\ vr[o].made
    /\ \E p \in OBJECTS : vr[p].made /\ Bind(o, merge(vr[o], vr[p]))

NextVR ==
    \E o \in OBJECTS :
        \/ Construct(o)
        \/ OkResult(o)
        \/ ErrorResult(o)
        \/ AddError(o)
        \/ AddFieldError(o)
        \/ AddWarning(o)
        \/ Merge(o)

SpecVR == InitVR /\ [][NextVR]_vars

----------------------------------------------------------------------------
(* validate_hole_section, called once on a form                            *)

\* dict(base) after the edits; the edit Missing takes the key out.
Edit(base, edits) ==
    [k \in (DOMAIN base \cup DOMAIN edits) \ {x \in DOMAIN edits : edits[x] = Missing} |->
        IF k \in DOMAIN edits THEN edits[k] ELSE base[k]]

RUN_KEYS == {run_fields[i].key : i \in 1..Len(run_fields)}

\* The keys of a run, each holding the value v.
RunOf(run, v) == [k \in {key \o "_run" \o IntToStr(run) : key \in RUN_KEYS} |-> v]

\* A form the validator accepts: one motor, one bit, one run.
VALID_FORM ==
    "dd_well_type" :> PyStr("DIRECTIONAL")
    @@ "mud_motor1_brand" :> PyStr("NOV")
    @@ "mud_motor1_size" :> PyStr("8\" PDM")
    @@ "mud_motor1_sleeve_stb_gauge_in" :> PyStr("12.125")
    @@ "mud_motor1_bend_angle_deg" :> PyStr("1.50")
    @@ "mud_motor1_lobe" :> PyStr("7/8")
    @@ "mud_motor1_stage" :> PyStr("4")
    @@ "bit1_brand" :> PyStr("SMITH")
    @@ "bit1_kind" :> PyStr("PDC")
    @@ "bit1_type" :> PyStr("X616")
    @@ "bit1_serial" :> PyStr("S1")
    @@ "bit1_nozzles" :> PyList(<<Tuple2(PyInt(5), PyInt(9))>>)
    @@ "personnel_day_dd_1" :> PyStr("A. B.")
    @@ "info_casing_od" :> PyStr("7\"")
    @@ "info_casing_id" :> PyStr("6.184\"")
    @@ "info_casing_shoe" :> PyStr("100")
    @@ "info_mud_type" :> PyStr("GEL")
    @@ "info_section_tvd" :> PyStr("1000")
    @@ "info_section_md" :> PyStr("1200")
    @@ "ta_call_out_date" :> PyStr("2024-01-05")
    @@ "ta_crew_mob_time" :> PyStr("16:30")
    @@ "ta_release_date" :> PyDate(20240107)
    @@ "ta_release_time" :> PyStr("0730")
    @@ RunOf(1, PyStr("1.5"))

\* Mud motor 1 and the directional type of the well, motor 2 left out.
Motor1Forms ==
    {Edit(VALID_FORM,
          "dd_well_type" :> dd
          @@ "mud_motor1_brand" :> brand
          @@ "mud_motor1_size" :> size
          @@ "mud_motor1_sleeve_stb_gauge_in" :> sleeve
          @@ "mud_motor1_bend_angle_deg" :> bend
          @@ "mud_motor1_lobe" :> lobe
          @@ "mud_motor1_stage" :> stage
          @@ "mud_motor1_ibs_gauge_in" :> ibs) :
        dd \in {PyStr("ONLY INCLINATION"), PyStr("DIRECTIONAL")},
        brand \in {Missing, PyStr("NOV"), PyStr("XX")},
        size \in {PyStr(""), PyStr("8\" PDM")},
        sleeve \in {Missing, PyStr("12.125"), PyStr("abc"), PyInt(0)},
        bend \in {PyNone, PyStr("1.50")},
        lobe \in {Missing, PyStr("7/8"), PyStr("9/9")},
        stage \in {Missing, PyStr("4")},
        ibs \in {Missing, PyStr("8.5"), PyStr("x")}}

\* Mud motor 2, next to a valid motor 1.
Motor2Forms ==
    {Edit(VALID_FORM,
          "mud_motor2_brand" :> brand
          @@ "mud_motor2_size" :> size
          @@ "mud_motor2_sleeve_stb_gauge_in" :> sleeve
          @@ "mud_motor2_bend_angle_deg" :> bend
          @@ "mud_motor2_lobe" :> lobe
          @@ "mud_motor2_stage" :> stage
          @@ "mud_motor2_ibs_gauge_in" :> ibs) :
        brand \in {Missing, PyStr("NOV"), PyStr("XX")},
        size \in {Missing, PyStr("8\" PDM"), PyStr("XX")},
        sleeve \in {Missing, PyStr("12.125"), PyStr("abc"), PyInt(0)},
        bend \in {PyStr(" "), PyStr("1.50")},
        lobe \in {Missing, PyStr("7/8")},
        stage \in {Missing, PyStr("4"), PyInt(4)},
        ibs \in {Missing, PyStr("8.5"), PyStr("x")}}

\* Nozzle lists: none, empty, unreadable, one that parses to nothing, valid
\* ones, one without a positive line, and ones holding an int no float holds.
NOZZLE_VALUES ==
    {Missing,
     PyList(<<>>),
     PyStr("5x9"),
     PyList(<<Tuple2(PyStr("a"), PyInt(9)), Tuple1(PyInt(5))>>),
     PyList(<<Tuple2(PyInt(5), PyInt(9))>>),
     PyList(<<NozzleLine(PyInt(3), PyInt(12)), Dict(PyStr("1"), Missing, PyInt(10))>>),
     PyList(<<Tuple2(PyInt(0), PyInt(9)), Dict(PyInt(2), Missing, Missing)>>),
     PyList(<<Tuple2(PyInt(0), PyInt(FloatIntLimit))>>),
     PyList(<<Tuple2(PyInt(FloatIntLimit), PyInt(9))>>),
     PyList(<<Tuple2(PyInt(5), PyInt(9)), Tuple2(PyInt(1), PyInt(2 * FloatIntLimit))>>)}

\* Bit 1, bit 2 left out.
Bit1Forms ==
    {Edit(VALID_FORM,
          "bit1_brand" :> brand
          @@ "bit1_kind" :> kind
          @@ "bit1_type" :> type
          @@ "bit1_serial" :> serial
          @@ "bit1_nozzles" :> nozzles) :
        brand \in {Missing, PyStr("SMITH"), PyStr("XX")},
        kind \in {PyStr(""), PyStr("PDC")},
        type \in {Missing, PyStr("X616")},
        serial \in {PyStr(" "), PyStr("S1")},
        nozzles \in NOZZLE_VALUES}

\* Bit 2, next to a valid bit 1.
Bit2Forms ==
    {Edit(VALID_FORM,
          "bit2_brand" :> brand
          @@ "bit2_kind" :> kind
          @@ "bit2_type" :> type
          @@ "bit2_iadc" :> iadc
          @@ "bit2_serial" :> serial
          @@ "bit2_nozzles" :> nozzles) :
        brand \in {Missing, PyStr("SMITH"), PyStr("XX")},
        kind \in {Missing, PyStr("PDC")},
        type \in {PyStr(""), PyStr("X616")},
        iadc \in {Missing, PyStr("537")},
        serial \in {Missing, PyStr("S2")},
        nozzles \in NOZZLE_VALUES}

\* The nozzles of both bits.
NozzleForms ==
    {Edit(VALID_FORM,
          "bit1_nozzles" :> nozzles1
          @@ "bit2_brand" :> PyStr("SMITH")
          @@ "bit2_nozzles" :> nozzles2) :
        nozzles1 \in NOZZLE_VALUES, nozzles2 \in NOZZLE_VALUES}

\* The casing OD, ID and shoe.
InfoForms ==
    {Edit(VALID_FORM,
          "info_casing_od" :> od
          @@ "info_casing_id" :> id
          @@ "info_casing_shoe" :> shoe) :
        od \in {Missing, PyStr("XX"), PyStr(" OPEN HOLE ")}
               \cup {PyStr(x) : x \in CASING_OD_OPTIONS},
        id \in {Missing, PyStr("XX")} \cup {PyStr(x) : x \in CASING_ID_OPTIONS},
        shoe \in {Missing, PyStr(""), PyStr("0"), PyStr("100"), PyStr("-5"),
                  PyStr("abc"), PyInt(0), PyFloat(1500)}}

\* What a time-analysis field can hold.
DECIMAL_VALUES ==
    {Missing, PyNone, PyStr(" "), PyStr("0"), PyStr("1,5"), PyStr("-1"), PyStr("abc"),
     PyInt(0), PyFloat(2500)}

\* One field of one run edited, in a form with run 1 filled in; one field of
\* run 2 edited in a form with runs 1 and 2 filled in, run 3 touched or not;
\* one field of run 1 given under its legacy key.
RunForms ==
    {Edit(VALID_FORM, (key \o "_run" \o IntToStr(run)) :> v) :
        key \in RUN_KEYS, run \in 1..3, v \in DECIMAL_VALUES}
    \cup
    {Edit(VALID_FORM @@ RunOf(2, PyStr("2")),
          (key \o "_run2") :> v @@ "ta_brt_hrs_run3" :> w) :
        key \in RUN_KEYS, v \in DECIMAL_VALUES, w \in {Missing, PyStr("3")}}
    \cup
    {Edit(VALID_FORM, (key \o "_run1") :> Missing @@ key :> v) :
        key \in RUN_KEYS, v \in DECIMAL_VALUES}

\* Rotary time, sliding time and BRT of each run, and the meters of run 1:
\* zero, positive or unreadable; run 2 and run 3 filled in or left out.
TotalsForms ==
    {Edit(VALID_FORM @@ r2 @@ r3,
          "ta_rotary_time_hrs_run1" :> t[1] @@ "ta_sliding_time_hrs_run1" :> t[2]
          @@ "ta_brt_hrs_run1" :> t[3] @@ "ta_rotary_meters_run1" :> m
          @@ (IF r2 = NoData THEN NoData
              ELSE "ta_rotary_time_hrs_run2" :> u[1] @@ "ta_brt_hrs_run2" :> u[2])
          @@ (IF r3 = NoData THEN NoData
              ELSE "ta_sliding_meters_run3" :> w[1] @@ "ta_brt_hrs_run3" :> w[2])) :
        t \in {PyStr("0"), PyStr("1,5"), PyStr("abc")}
               \X {PyStr("0"), PyFloat(2500)}
               \X {PyStr("0"), PyStr("4"), PyNone},
        m \in {PyInt(0), PyStr("x")},
        r2 \in {NoData, RunOf(2, PyStr("2"))},
        u \in {PyStr("0"), PyStr("-1")} \X {PyInt(0), PyStr("8")},
        r3 \in {NoData, RunOf(3, PyStr("3"))},
        w \in {PyStr("0"), PyStr(" ")} \X {PyStr("0"), PyStr("6")}}

\* The four fields MOB TO RELEASE is computed from: absent, blank, in both
\* date formats, as date objects, unreadable, and times on either side of
\* midnight.
MobForms ==
    {Edit(VALID_FORM,
          "ta_call_out_date" :> cd
          @@ "ta_crew_mob_time" :> ct
          @@ "ta_release_date" :> rd
          @@ "ta_release_time" :> rt) :
        cd \in {Missing, PyStr(" "), PyStr("2024-01-05"), PyStr("05.01.2024"),
                PyStr("2024-13-01"), PyDate(20240106), PyDateTime(20240105, "10:00:00"),
                PyStr("2024-01-07")},
        ct \in {Missing, PyStr(""), PyStr("16:30"), PyStr("24:00"), PyStr("2401"),
                PyStr("abc"), PyStr("930"), PyInt(0)},
        rd \in {Missing, PyNone, PyDate(20240107), PyStr("2024-01-05"),
                PyStr("04.01.2024"), PyStr("2024/01/06")},
        rt \in {Missing, PyStr("0730"), PyStr("24:00"), PyStr("06.00"), PyStr("25:00")}}

\* What a personnel slot can hold.
PERSONNEL_VALUES ==
    {Missing, PyNone, PyStr(""), PyStr(" \t"), PyStr("A. B."), PyInt(0)}

\* The first DAY DD slot and one other slot, the other ten left out.
PersonnelForms ==
    {Edit(VALID_FORM, "personnel_day_dd_1" :> a @@ personnel_keys[i] :> b) :
        i \in 2..Len(personnel_keys), a \in PERSONNEL_VALUES, b \in PERSONNEL_VALUES}

\* A metric of run 1 under its run-1 key, under its legacy key, or both;
\* run 2 given by its BRT next to a legacy key.
LookupForms ==
    {Edit(VALID_FORM, (key \o "_run1") :> suffixed @@ key :> legacy) :
        key \in RUN_KEYS,
        suffixed \in {Missing, PyNone, PyStr(""), PyStr("1.5"), PyStr("abc"), PyStr("-1")},
        legacy \in {Missing, PyNone, PyStr("2"), PyStr("abc"), PyStr("0")}}
    \cup
    {Edit(VALID_FORM, key :> PyStr("2") @@ "ta_brt_hrs_run2" :> brt) :
        key \in RUN_KEYS, brt \in {PyStr("3"), PyStr(" ")}}

\* The fields the required derived values are made of.
DERIVED_INPUTS ==
    {"bit1_nozzles", "ta_call_out_date", "ta_crew_mob_time", "ta_release_date",
     "ta_release_time", "ta_rotary_time_hrs_run1", "ta_sliding_time_hrs_run1",
     "ta_rotary_meters_run1", "ta_sliding_meters_run1", "ta_brt_hrs_run1",
     "info_section_tvd", "info_section_md", "info_casing_shoe", "info_casing_od",
     "info_casing_id"}

\* What such a field can hold: nothing, a number, a date, a time, a list,
\* a text that is none of them.
DERIVED_VALUES ==
    {Missing, PyNone, PyStr(""), PyStr("0"), PyStr("1.5"), PyStr("-1"), PyStr("abc"),
     PyStr("nan"), PyFloat(2500), PyStr("2024-01-09"), PyDate(20240101),
     PyStr("24:00"), PyStr("OPEN HOLE"), PyList(<<>>),
     PyList(<<NozzleLine(PyInt(3), PyInt(12))>>),
     PyList(<<Tuple2(PyInt(0), PyInt(9))>>)}

\* One of the fields edited, the casing an open hole or not.
DerivedForms ==
    {Edit(VALID_FORM, casing @@ key :> v) :
        casing \in {NoData,
                    "info_casing_od" :> PyStr("OPEN HOLE")
                    @@ "info_casing_id" :> PyStr("OPEN HOLE")},
        key \in DERIVED_INPUTS, v \in DERIVED_VALUES}

InitValidate(forms) ==
    /\ pc = "call"
    /\ NoForm
    /\ section_data \in forms
    /\ result = NoResult
    /\ vr = NoObjects
    /\ text = ""
    /\ ctext = ""

\* result = validate_hole_section(section_data); result.raised names the
\* exception when the call raises instead of returning.
Validate ==
    /\ pc = "call"
    /\ pc' = "done"
    /\ result' = validate_hole_section(section_data)
    /\ UNCHANGED <<widgets, click, calls, store, vr, text, ctext, section_data>>

NextValidate == Validate

InitMotor == InitValidate(Motor1Forms \cup Motor2Forms)

SpecMotor == InitMotor /\ [][NextValidate]_vars

InitBit == InitValidate(Bit1Forms \cup Bit2Forms \cup NozzleForms)

SpecBit == InitBit /\ [][NextValidate]_vars

InitInfo == InitValidate(InfoForms)

SpecInfo == InitInfo /\ [][NextValidate]_vars

InitRuns == InitValidate(RunForms)

SpecRuns == InitRuns /\ [][NextValidate]_vars

InitTotals == InitValidate(TotalsForms)

SpecTotals == InitTotals /\ [][NextValidate]_vars

InitMob == InitValidate(MobForms)

SpecMob == InitMob /\ [][NextValidate]_vars

InitPersonnel == InitValidate(PersonnelForms)

SpecPersonnel == InitPersonnel /\ [][NextValidate]_vars

InitLookup == InitValidate(LookupForms)

SpecLookup == InitLookup /\ [][NextValidate]_vars

InitDerived == InitValidate(DerivedForms)

SpecDerived == InitDerived /\ [][NextValidate]_vars

----------------------------------------------------------------------------
(* validate_hole_section, called on a form that holds a key with a blank   *)
(* value and then on the form without the key                              *)

\* The values that are blank.
BLANK_VALUES == {PyNone, PyStr(""), PyStr(" \t")}

\* The keys of the first run, bit and motor without their suffix, as forms
\* saved by earlier versions hold them.
LEGACY_KEYS ==
    "mud_motor_brand" :> PyStr("NOV")
    @@ "mud_motor_stage" :> PyStr("4")
    @@ "bit_brand" :> PyStr("SMITH")
    @@ "bit_nozzles" :> PyList(<<Tuple2(PyInt(5), PyInt(9))>>)
    @@ "ta_brt_hrs" :> PyStr("2")
    @@ "ta_standby_time_hrs" :> PyStr("3")

\* Keys validate_hole_section reads that VALID_FORM does not hold.
OTHER_KEYS ==
    {"mud_motor1_ibs_gauge_in", "mud_motor2_brand", "mud_motor2_sleeve_stb_gauge_in",
     "bit1_iadc", "bit2_brand", "bit2_nozzles", "personnel_night_mwd_3",
     "ta_brt_hrs_run2", "ta_standby_time_hrs_run3"}

\* A valid form, with or without legacy keys, one key of it blank; text
\* names the key.
InitOmit ==
    /\ pc = "call"
    /\ NoForm
    /\ text \in DOMAIN VALID_FORM \cup OTHER_KEYS \cup DOMAIN LEGACY_KEYS
    /\ \E legacy \in {NoData, LEGACY_KEYS} : \E blank \in BLANK_VALUES :
           section_data = (text :> blank) @@ VALID_FORM @@ legacy
    /\ result = NoResult
    /\ vr = NoObjects
    /\ ctext = ""

\* other = result; result = validate_hole_section(section_data without the
\* key)
ValidateWithout ==
    /\ pc = "done"
    /\ vr' = [vr EXCEPT !["other"] = result]
    /\ section_data' = [k \in DOMAIN section_data \ {text} |-> section_data[k]]
    /\ result' = validate_hole_section(section_data')
    /\ pc' = "again"
    /\ UNCHANGED <<widgets, click, calls, store, text, ctext>>

NextOmit == Validate \/ ValidateWithout

SpecOmit == InitOmit /\ [][NextOmit]_vars

----------------------------------------------------------------------------
(* mob_to_release_hours, called once in a process whose local zone is text *)

HOUR_DATES == {20240105, 20240106, 20240310, 20240311, 20241103}

HOUR_TIMES == {"24:00", "2400", "06:00", "00:30", "23.30", "060", "abc"}

HourArgs ==
    {"call_out_date" :> PyDate(cd) @@ "crew_mob_time_hhmm" :> PyStr(ct)
     @@ "release_date" :> PyDate(rd) @@ "release_time_hhmm" :> PyStr(rt) :
        cd \in HOUR_DATES, ct \in HOUR_TIMES, rd \in HOUR_DATES, rt \in HOUR_TIMES}

InitHours ==
    /\ pc = "call"
    /\ NoForm
    /\ text \in ZONES
    /\ section_data \in HourArgs
    /\ result = NoResult
    /\ ctext = "" /\ vr = NoObjects

\* result = mob_to_release_hours(**section_data), as [exc, v]
CallHours ==
    /\ pc = "call"
    /\ result' = mob_to_release_hours_in(text,
                      section_data["call_out_date"].n,
                      section_data["crew_mob_time_hhmm"].s,
                      section_data["release_date"].n,
                      section_data["release_time_hhmm"].s)
    /\ pc' = "done"
    /\ UNCHANGED <<widgets, click, calls, store, text, ctext, vr, section_data>>

NextHours == CallHours

SpecHours == InitHours /\ [][NextHours]_vars

----------------------------------------------------------------------------
(* normalize_hhmm, called on a typed text and then on its own result       *)

\* What is typed, as <<hour part, separator, minute part>>: hours and
\* minutes around their limits with each separator, four digits, every
\* three digits, one and two digits, and texts that are no time.
TIME_PIECES ==
    ({"0", "00", "9", "09", "16", "23", "24", "25", "024", "007", "1a"}
        \X {":", ".", " : "} \X {"0", "00", "5", "30", "59", "60", "000", "030", ""})
    \cup ({"00", "09", "16", "23", "24", "25", "99"} \X {""}
            \X {"00", "01", "30", "59", "60"})
    \cup {<<SubSeq(DIGITS, d1, d1) \o SubSeq(DIGITS, d2, d2) \o SubSeq(DIGITS, d3, d3),
             "", "">> : d1 \in 1..10, d2 \in 1..10, d3 \in 1..10}
    \cup ({"0", "7", "07", "24", "25", "", "abc", "1:2:3", "12345"} \X {""} \X {""})

InitHhMm ==
    /\ pc = "call"
    /\ NoForm
    /\ \E p \in TIME_PIECES, pad \in {"", " "} :
          /\ section_data = ("hh" :> PyStr(p[1]) @@ "sep" :> PyStr(p[2])
                             @@ "mm" :> PyStr(p[3]))
          /\ text = pad \o p[1] \o p[2] \o p[3] \o pad
    /\ result = NoResult
    /\ ctext = "" /\ vr = NoObjects

\* result = normalize_hhmm(text), as [exc, v]
Normalize ==
    /\ pc = "call"
    /\ result' = normalize_hhmm(text)
    /\ pc' = "done"
    /\ UNCHANGED <<widgets, click, calls, store, text, ctext, vr, section_data>>

\* result = normalize_hhmm(result), the first result kept in ctext
Renormalize ==
    /\ pc = "done"
    /\ result.exc = ""
    /\ ctext' = result.v
    /\ result' = normalize_hhmm(result.v)
    /\ pc' = "again"
    /\ UNCHANGED <<widgets, click, calls, store, text, vr, section_data>>

NextHhMm == Normalize \/ Renormalize

SpecHhMm == InitHhMm /\ [][NextHhMm]_vars

----------------------------------------------------------------------------
(* derive_field_name_from_well_key, called once on a text                  *)

\* Longest well key typed.
MaxKeyLen == 6

\* A letter, a digit, a dash, a space and a character canonical_text
\* deletes.
KEY_ALPHABET == {"a", "4", "-", " ", "@"}

InitWellKey ==
    /\ pc = "call"
    /\ NoForm
    /\ text \in StringsUpTo(KEY_ALPHABET, MaxKeyLen)
    /\ ctext = ""
    /\ vr = NoObjects /\ section_data = NoData /\ result = NoResult

\* ctext = derive_field_name_from_well_key(text)
DeriveFieldName ==
    /\ pc = "call"
    /\ ctext' = derive_field_name_from_well_key(text)
    /\ pc' = "done"
    /\ UNCHANGED <<widgets, click, calls, store, text, vr, section_data, result>>

NextWellKey == DeriveFieldName

SpecWellKey == InitWellKey /\ [][NextWellKey]_vars

----------------------------------------------------------------------------
(* tfa_from_nozzles, called on a list and on the list with a line added    *)

\* Most lines of the list.
MaxLines == 2

\* Counts and sizes of a line: none, negative, usual ones, and an int no
\* float holds.
LINE_COUNTS == {0, 0 - 1, 1, 5, FloatIntLimit}
LINE_SIZES == {0, 9, 12, FloatIntLimit}
LINES == {[count |-> c, size_32nds |-> z] : c \in LINE_COUNTS, z \in LINE_SIZES}

RECURSIVE ListsUpTo(_, _)
ListsUpTo(items, n) ==
    IF n = 0 THEN {<<>>}
    ELSE LET shorter == ListsUpTo(items, n - 1)
         IN  shorter \cup {Append(x, it) : x \in shorter, it \in items}

\* lines is the list, line the line added to it, before what the call on
\* the list gave.
InitTfa ==
    /\ pc = "call"
    /\ NoForm
    /\ section_data \in
           {[lines |-> L, line |-> n, before |-> Raise("")] :
               L \in ListsUpTo(LINES, MaxLines), n \in LINES}
    /\ vr = NoObjects
    /\ result = NoResult
    /\ text = "" /\ ctext = ""

\* tfa_from_nozzles(lines)
TfaOfList ==
    /\ pc = "call"
    /\ result' = tfa_from_nozzles(section_data.lines)
    /\ pc' = "done"
    /\ UNCHANGED <<widgets, click, calls, store, text, ctext, vr, section_data>>

\* tfa_from_nozzles(lines + [line])
TfaOfLonger ==
    /\ pc = "done"
    /\ section_data' = [section_data EXCEPT !.before = result]
    /\ result' = tfa_from_nozzles(Append(section_data.lines, section_data.line))
    /\ pc' = "again"
    /\ UNCHANGED <<widgets, click, calls, store, text, ctext, vr>>

NextTfa == TfaOfList \/ TfaOfLonger

SpecTfa == InitTfa /\ [][NextTfa]_vars

----------------------------------------------------------------------------
(* eff_drilling_percent, called once on two floats                         *)

\* Hours, as floats: negative, zero, positive, not a number.
HOURS ==
    {PyFloat(0), PyFloat(0 - 1000), PyFloat(0 - 500), PyFloat(250), PyFloat(2500),
     PyFloat(5000), PyFloat(7250), PyFloat(50000), PyFloat(100000), PyFloat(300000),
     PyNaN}

InitEff ==
    /\ pc = "call"
    /\ NoForm
    /\ section_data \in
           {("drilling_time_hrs" :> dt @@ "total_brt_hrs" :> brt) :
               dt \in HOURS, brt \in HOURS}
    /\ vr = NoObjects
    /\ result = NoResult
    /\ text = "" /\ ctext = ""

\* eff_drilling_percent(drilling_time_hrs, total_brt_hrs)
CallEff ==
    /\ pc = "call"
    /\ result' = Return(eff_drilling_percent(section_data["drilling_time_hrs"],
                                             section_data["total_brt_hrs"]))
    /\ pc' = "done"
    /\ UNCHANGED <<widgets, click, calls, store, text, ctext, vr, section_data>>

NextEff == CallEff

SpecEff == InitEff /\ [][NextEff]_vars

----------------------------------------------------------------------------
(* validate_step2, called once on a form                                   *)

VALID_STEP2 ==
    "kop_m" :> PyStr("100")
    @@ "tvd_planned_m" :> PyStr("1000")
    @@ "md_planned_m" :> PyStr("1200.5")
    @@ "max_inc_planned_deg" :> PyInt(45)
    @@ "azimuth_planned_deg" :> PyStr("180")
    @@ "max_dls_planned_deg_per_30m" :> PyFloat(3500)
    @@ "vs_planned_m" :> PyStr("0")
    @@ "dist_planned_m" :> PyStr(" 0 ")

\* What a field of the form can hold.
STEP2_VALUES ==
    {Missing, PyNone, PyStr(""), PyStr(" "), PyStr("5"), PyStr("-1"), PyStr("abc"),
     PyInt(0), PyFloat(2500), PyStr("400"), PyStr("nan")}

\* One field edited, planned or actual, the KOP given or not; the actual
\* TVD and MD edited together.
Step2Forms ==
    {Edit(VALID_STEP2, "kop_m" :> kop @@ f :> v) :
        kop \in {PyStr("100"), PyStr(""), PyStr("-0.5"), PyStr("NaN")},
        f \in DOMAIN STEP2_FIELD_LABELS \ {"kop_m"}, v \in STEP2_VALUES}
    \cup
    {Edit(VALID_STEP2, "tvd_at_td_m" :> v @@ "md_at_td_m" :> w) :
        v \in STEP2_VALUES, w \in STEP2_VALUES}

InitStep2 ==
    /\ pc = "call"
    /\ NoForm
    /\ section_data \in Step2Forms
    /\ vr = NoObjects
    /\ result = NoResult
    /\ text = "" /\ ctext = ""

\* r = validate_step2(section_data)
ValidateStep2 ==
    /\ pc = "call"
    /\ vr' = [vr EXCEPT !["r"] = validate_step2(section_data)]
    /\ pc' = "done"
    /\ UNCHANGED <<widgets, click, calls, store, text, ctext, section_data, result>>

NextStep2 == ValidateStep2

SpecStep2 == InitStep2 /\ [][NextStep2]_vars

----------------------------------------------------------------------------
(* validate_step1, called once on a form                                   *)

VALID_STEP1 ==
    "well_name" :> PyStr("Yaprakli-4")
    @@ "well_key" :> PyStr("YAPRAKLI-4")
    @@ "operator" :> PyStr("tpao")
    @@ "contractor" :> PyStr("TP-OTC")
    @@ "well_purpose" :> PyStr("Exploration")
    @@ "well_type" :> PyStr("OIL")
    @@ "dd_well_type" :> PyStr("ONLY INCLINATION")
    @@ "province" :> PyStr("Batman")
    @@ "rig_name" :> PyStr("F 200/3")

\* What a required field can hold: nothing, a placeholder of a combo box as
\* typed, a text, a number, a text canonical_text empties.
STEP1_VALUES ==
    {Missing, PyNone, PyStr(""), PyStr(" "), PyStr("select from list"),
     PyStr("Select or  Enter Manually"), PyStr("AUTOMATICALLY GENERATED"),
     PyStr("Select"), PyStr("tpao"), PyInt(0), PyStr("@")}

\* Well names and well keys with and without the suffix of a well key.
WELL_NAMES ==
    {Missing, PyNone, PyStr(""), PyStr("@"), PyStr("yaprakli-4"), PyStr("YAPRAKLI-4ST"),
     PyStr("yaprakli"), PyStr("yaprakli-"), PyStr("a-4-b"), PyStr("x - 12k2"),
     PyStr("-4"), PyStr("a-b4"), PyStr("a/7"), PyStr("select from list"), PyInt(0 - 4)}

\* One required field edited; the well name and the well key edited
\* together.
Step1Forms ==
    {Edit(VALID_STEP1, STEP1_REQUIRED_FIELDS[i] :> v) :
        i \in 2..Len(STEP1_REQUIRED_FIELDS), v \in STEP1_VALUES}
    \cup
    {Edit(VALID_STEP1, "well_name" :> n @@ "well_key" :> k) :
        n \in WELL_NAMES, k \in WELL_NAMES}

InitStep1 ==
    /\ pc = "call"
    /\ NoForm
    /\ section_data \in Step1Forms
    /\ vr = NoObjects
    /\ result = NoResult
    /\ text = "" /\ ctext = ""

\* r = validate_step1(section_data)
ValidateStep1 ==
    /\ pc = "call"
    /\ vr' = [vr EXCEPT !["r"] = validate_step1(section_data)]
    /\ pc' = "done"
    /\ UNCHANGED <<widgets, click, calls, store, text, ctext, section_data, result>>

NextStep1 == ValidateStep1

SpecStep1 == InitStep1 /\ [][NextStep1]_vars

-----------------------------------------------------------------------------
(* The hole-section form: the user edits widgets and clicks Validate and   *)
(* Save.  The widgets are kept by the data key _collect_section_data reads *)
(* them under; the ticket widgets, which no rule reads, and the read-only  *)
(* widgets of the derived values, which are never collected, are left out. *)

\* save_hole_section calls the model keeps.
MaxSaves == 2

COMBO_WIDGETS ==
    {"mud_motor" \o m \o f : m \in {"1", "2"},
                             f \in {"_brand", "_size", "_bend_angle_deg", "_lobe", "_stage"}}
    \cup {"bit" \o b \o f : b \in {"1", "2"}, f \in {"_brand", "_kind"}}
    \cup {"info_casing_od", "info_casing_id", "info_mud_type"}

GAUGE_WIDGETS ==
    {"mud_motor" \o m \o f : m \in {"1", "2"},
                             f \in {"_sleeve_stb_gauge_in", "_ibs_gauge_in"}}

LINE_WIDGETS ==
    {"bit" \o b \o f : b \in {"1", "2"}, f \in {"_type", "_iadc", "_serial"}}
    \cup {personnel_keys[i] : i \in 1..Len(personnel_keys)}
    \cup {"info_casing_shoe", "info_section_tvd", "info_section_md",
          "ta_crew_mob_time", "ta_release_time"}
    \cup {key \o "_run" \o run : key \in RUN_KEYS, run \in {"1", "2", "3"}}

\* The form as it opens on a hole section without a row: every text empty,
\* no nozzles, no dates; dd_well_type is what the identity of the well holds.
BLANK_WIDGETS ==
    [k \in COMBO_WIDGETS \cup GAUGE_WIDGETS \cup LINE_WIDGETS |-> PyStr("")]
    @@ [k \in {"bit1_nozzles", "bit2_nozzles"} |-> PyList(<<>>)]
    @@ [k \in {"ta_call_out_date", "ta_release_date"} |-> PyNone]
    @@ "dd_well_type" :> PyStr("")

\* The form filled in so that the validator accepts it.
FILLED_WIDGETS ==
    Edit(BLANK_WIDGETS,
         VALID_FORM @@ "ta_call_out_date" :> PyDate(20240105)
                    @@ "bit1_nozzles" :> PyList(<<NozzleLine(PyInt(5), PyInt(9))>>))

\* combo_value: the text of a combo box, the placeholder read as no choice.
combo_value(key, txt) ==
    IF Strip(txt) = "Select from list" THEN ""
    ELSE IF key = "info_casing_od" /\ Strip(txt) = "Select OD from list" THEN ""
    ELSE IF key = "info_casing_id" /\ Strip(txt) = "Select ID from list" THEN ""
    ELSE Strip(txt)

\* Both casing combos say OPEN HOLE.
OpenHole(w) ==
    /\ combo_value("info_casing_od", w["info_casing_od"].s) = "OPEN HOLE"
    /\ combo_value("info_casing_id", w["info_casing_id"].s) = "OPEN HOLE"

\* The widgets after _collect_section_data: it writes "0" into the casing
\* shoe of an open hole.
Collected(w) ==
    IF OpenHole(w) THEN [w EXCEPT !["info_casing_shoe"] = PyStr("0")] ELSE w

\* The dict _collect_section_data returns.
_collect_section_data(w) ==
    [k \in COMBO_WIDGETS |-> PyStr(combo_value(k, w[k].s))]
    @@ [k \in GAUGE_WIDGETS |->
            IF Upper(Strip(w[k].s)) = "NONE" THEN PyStr("") ELSE PyStr(Strip(w[k].s))]
    @@ [k \in {"mud_motor" \o m \o f : m \in {"1", "2"},
                                        f \in {"_sleeve_none", "_ibs_none"}} |->
            LET gauge == IF k = "mud_motor1_sleeve_none" THEN "mud_motor1_sleeve_stb_gauge_in"
                         ELSE IF k = "mud_motor2_sleeve_none" THEN "mud_motor2_sleeve_stb_gauge_in"
                         ELSE IF k = "mud_motor1_ibs_none" THEN "mud_motor1_ibs_gauge_in"
                         ELSE "mud_motor2_ibs_gauge_in"
            IN  IF Upper(Strip(w[gauge].s)) = "NONE" THEN PyInt(1) ELSE PyInt(0)]
    @@ [k \in LINE_WIDGETS |-> PyStr(Strip(Collected(w)[k].s))]
    @@ [k \in {"bit1_nozzles", "bit2_nozzles", "ta_call_out_date", "ta_release_date"} |-> w[k]]
    @@ "dd_well_type" :> PyStr(Strip(w["dd_well_type"].s))

\* The widgets after _apply_computed: the two times as normalized, the
\* nozzles as parsed.
_apply_computed(w, computed) ==
    LET norm(key) == IF Truthy(Get(computed, key \o "_norm"))
                     THEN PyStr(ToStr(computed[key \o "_norm"]))
                     ELSE w[key]
        line(parsed) == NozzleLine(PyInt(parsed.count), PyInt(parsed.size_32nds))
        nozzles(key) == IF Get(computed, key).t # "None"
                        THEN PyList([i \in 1..Len(computed[key].l) |-> line(computed[key].l[i])])
                        ELSE w[key]
    IN  [w EXCEPT !["ta_crew_mob_time"] = norm("ta_crew_mob_time"),
                  !["ta_release_time"] = norm("ta_release_time"),
                  !["bit1_nozzles"] = nozzles("bit1_nozzles"),
                  !["bit2_nozzles"] = nozzles("bit2_nozzles")]

\* The filled form of an open hole: no casing shoe, no second mud motor.
OPEN_HOLE_WIDGETS ==
    Edit(FILLED_WIDGETS,
         "info_casing_od" :> PyStr("OPEN HOLE") @@ "info_casing_id" :> PyStr("OPEN HOLE")
         @@ "info_casing_shoe" :> PyStr("")
         @@ "mud_motor2_brand" :> PyStr("Select from list")
         @@ "mud_motor1_ibs_gauge_in" :> PyStr("none"))

\* What the user can put into a widget.
USER_EDITS ==
    {<<"info_section_tvd", PyStr("1000")>>, <<"info_section_tvd", PyStr("")>>,
     <<"ta_crew_mob_time", PyStr(" 930")>>,
     <<"bit1_nozzles", PyList(<<>>)>>,
     <<"bit1_nozzles", PyList(<<NozzleLine(PyInt(5), PyInt(9))>>)>>}

InitForm ==
    /\ pc = "idle"
    /\ widgets \in {BLANK_WIDGETS, FILLED_WIDGETS, OPEN_HOLE_WIDGETS}
    /\ click = ""
    /\ calls = <<>>
    /\ store = PyNone
    /\ section_data = NoData
    /\ result = NoResult
    /\ vr = NoObjects
    /\ text = ""
    /\ ctext = ""

\* The user changes one widget.
UserEdits ==
    /\ pc = "idle"
    /\ \E edit \in USER_EDITS : widgets' = [widgets EXCEPT ![edit[1]] = edit[2]]
    /\ UNCHANGED <<pc, vr, text, ctext, section_data, result, click, calls, store>>

\* _validate_section: collect, validate, show the computed values.  When the
\* validator raises, the handler ends before _apply_computed.
_validate_section ==
    /\ section_data' = _collect_section_data(widgets)
    /\ result' = validate_hole_section(section_data')
    /\ widgets' = IF result'.raised # "" THEN Collected(widgets)
                  ELSE _apply_computed(Collected(widgets), result'.computed)

_on_validate_clicked ==
    /\ pc = "idle"
    /\ click' = "validate"
    /\ _validate_section
    /\ UNCHANGED <<pc, vr, text, ctext, calls, store>>

\* The Save handler without the test of result.ok.
_on_save_clicked_whatever_the_result ==
    /\ pc = "idle"
    /\ Len(calls) < MaxSaves
    /\ click' = "save"
    /\ _validate_section
    /\ IF result'.raised # ""
       THEN UNCHANGED <<calls, store>>
       ELSE /\ calls' = Append(calls, _collect_section_data(widgets'))
            /\ \/ store' = _collect_section_data(widgets')
               \/ store' = store
    /\ UNCHANGED <<pc, vr, text, ctext>>

\* _on_save_clicked.  save_hole_section either writes the row or raises (the
\* store is not reachable, the well has no key), and the handler then reports
\* the failure and leaves the store as it was.
_on_save_clicked ==
    /\ pc = "idle"
    /\ Len(calls) < MaxSaves
    /\ click' = "save"
    /\ _validate_section
    /\ IF result'.raised # "" \/ ~result'.ok
       THEN UNCHANGED <<calls, store>>
       ELSE /\ calls' = Append(calls, _collect_section_data(widgets'))
            /\ \/ store' = _collect_section_data(widgets')
               \/ store' = store
    /\ UNCHANGED <<pc, vr, text, ctext>>

NextForm == UserEdits \/ _on_validate_clicked \/ _on_save_clicked

SpecForm == InitForm /\ [][NextForm]_vars

----------------------------------------------------------------------------
(* Claims                                                                  *)

\* The call has returned a result.
Returned == pc = "done" /\ result.raised = ""

HasError(message) == \E i \in 1..Len(result.errors) : result.errors[i] = message

StartsWith(s, prefix) == Len(s) >= Len(prefix) /\ SubSeq(s, 1, Len(prefix)) = prefix

Mentions(s, part) ==
    \E i \in 1..(Len(s) - Len(part) + 1) : SubSeq(s, i, i + Len(part) - 1) = part

\* The messages of result.errors that begin with a label.
ErrorsOf(label) ==
    {result.errors[i] : i \in {j \in 1..Len(result.errors) :
                                  StartsWith(result.errors[j], label)}}

\* The rules the claims name, as the messages about a field that the result
\* must hold: a choice from an option list, a required text, a decimal.
ChoiceRule(label, value, allowed) ==
    ErrorsOf(label) = IF _is_blank(value) THEN {label \o " is required."}
                      ELSE IF _as_str(value) \notin allowed
                           THEN {label \o " must be selected from the list."}
                           ELSE {}

TextRule(label, value) ==
    ErrorsOf(label) = IF _is_blank(value) THEN {label \o " is required."} ELSE {}

IsDecimal(value) == ~_is_blank(value) /\ parse_decimal(_as_str(value)).exc = ""

DecimalOf(value) == parse_decimal(_as_str(value)).v

HasPositiveLine(lines) ==
    \E i \in 1..Len(lines) : lines[i].count > 0 /\ lines[i].size_32nds > 0

NOZZLES_REQUIRED == " / NOZZLES are required. Please select nozzles to calculate TFA."
NOZZLES_INVALID == " / NOZZLES are invalid. Please reselect nozzles."

\* The nozzle rule of a bit ("BIT-1", "BIT-2") whose parsed list is lines.
NozzleRule(bit, lines) ==
    /\ HasError(bit \o NOZZLES_REQUIRED) <=> lines = <<>>
    /\ HasError(bit \o NOZZLES_INVALID) <=> (lines # <<>> /\ ~HasPositiveLine(lines))

\* C1: validate_hole_section never propagates an exception: every call on a
\* form of strings, numbers, dates, lists and None returns a result, and a
\* bit-1 nozzle list whose TFA cannot be computed gives ok=False with an
\* entry in errors.
C1_NeverRaises ==
    pc = "done" =>
        /\ result.raised = ""
        /\ tfa_from_nozzles(_parse_nozzles(Get(section_data, "bit1_nozzles"))).exc # ""
              => (~result.ok /\ result.errors # <<>>)

\* C2: after any sequence of add_error, add_field_error, add_warning and
\* merge calls on objects made by ValidationResult(), ok_result() or
\* error_result(...), ok is True exactly when errors and field_errors are
\* both empty.
C2_OkIffNoErrors ==
    \A o \in OBJECTS :
        vr[o].made =>
            (vr[o].ok <=> (vr[o].errors = <<>> /\ DOMAIN vr[o].field_errors = {}))

\* C3: canonical_text is idempotent: applied to its own result it returns
\* that result unchanged.
C3_Idempotent == pc = "again" => ctext = text

MOTOR_FIELDS ==
    {"brand", "size", "sleeve_stb_gauge_in", "bend_angle_deg", "lobe", "stage",
     "ibs_gauge_in"}

\* The rules of a mud motor ("1", "2") for size, sleeve gauge, bend angle,
\* lobe and stage.
MotorRules(motor) ==
    LET V(field) == Get(section_data, "mud_motor" \o motor \o "_" \o field)
        label == "MUD MOTOR-" \o motor \o " / "
        sleeve == label \o "SLEEVE STB GAUGE (IN)"
    IN  /\ ChoiceRule(label \o "SIZE", V("size"), MUD_MOTOR_SIZES)
        /\ ChoiceRule(label \o "BEND ANGLE (DEG)", V("bend_angle_deg"), BEND_ANGLES_DEG)
        /\ ChoiceRule(label \o "LOBE", V("lobe"), LOBE_LIST)
        /\ ChoiceRule(label \o "STAGE", V("stage"), STAGE_LIST)
        /\ (ErrorsOf(sleeve) = {}) <=> IsDecimal(V("sleeve_stb_gauge_in"))

MotorPlaceholders(motor) ==
    LET C(field) == result.computed["mud_motor" \o motor \o "_" \o field]
    IN  /\ \A field \in {"brand", "size", "bend_angle_deg", "lobe", "stage"} :
              C(field) = PyStr("")
        /\ C("sleeve_stb_gauge_in") = PyNone
        /\ C("ibs_gauge_in") = PyNone

\* C5: mud motor 1 is treated as intentionally empty (no motor-1 error,
\* placeholders in computed) only when dd_well_type is "ONLY INCLINATION"
\* and all seven motor-1 fields are blank; in every other case brand, size,
\* bend angle, lobe and stage must be members of their option lists and the
\* sleeve gauge a parseable decimal, each violation adding an error, and a
\* blank IBS gauge adds none.
C5_Motor1 ==
    Returned =>
        LET V(field) == Get(section_data, "mud_motor1_" \o field)
            empty == /\ _as_str(Get(section_data, "dd_well_type")) = "ONLY INCLINATION"
                     /\ \A field \in MOTOR_FIELDS : _is_blank(V(field))
        IN  IF empty
            THEN ErrorsOf("MUD MOTOR-1") = {} /\ MotorPlaceholders("1")
            ELSE /\ ChoiceRule("MUD MOTOR-1 / BRAND", V("brand"), MUD_MOTOR_BRANDS)
                 /\ MotorRules("1")
                 /\ _is_blank(V("ibs_gauge_in")) => ErrorsOf("MUD MOTOR-1 / IBS") = {}

\* C6: mud motor 2 adds no error when all seven motor-2 fields are blank;
\* once any of them is non-blank a blank brand is reported as an error and
\* size, sleeve gauge, bend angle, lobe and stage are validated with the
\* rules of mud motor 1.
C6_Motor2 ==
    Returned =>
        LET V(field) == Get(section_data, "mud_motor2_" \o field)
        IN  IF \A field \in MOTOR_FIELDS : _is_blank(V(field))
            THEN ErrorsOf("MUD MOTOR-2") = {}
            ELSE /\ _is_blank(V("brand")) =>
                      HasError("MUD MOTOR-2 / BRAND is required when MUD MOTOR-2 fields are provided.")
                 /\ MotorRules("2")

\* Motor 2 is given by its IBS gauge alone and the missing brand is reported.
C6_Witness ==
    /\ Returned
    /\ \A field \in MOTOR_FIELDS \ {"ibs_gauge_in"} :
          _is_blank(Get(section_data, "mud_motor2_" \o field))
    /\ ~_is_blank(Get(section_data, "mud_motor2_ibs_gauge_in"))
    /\ HasError("MUD MOTOR-2 / BRAND is required when MUD MOTOR-2 fields are provided.")
    /\ HasError("MUD MOTOR-2 / SIZE is required.")

\* C7: when the parsed bit-1 nozzle list is empty the result has ok=False
\* with the "NOZZLES are required" error and computed holds no numeric
\* bit1_tfa_in2; when the list is non-empty without a line of count > 0 and
\* size > 0 the "NOZZLES are invalid" error is reported instead; the two
\* errors never occur together.
C7_Bit1Nozzles ==
    Returned =>
        LET lines == _parse_nozzles(Get(section_data, "bit1_nozzles"))
            required == HasError("BIT-1" \o NOZZLES_REQUIRED)
            invalid == HasError("BIT-1" \o NOZZLES_INVALID)
            tfa == Get(result.computed, "bit1_tfa_in2")
        IN  /\ lines = <<>> =>
                  ~result.ok /\ required /\ ~invalid /\ tfa.t \notin {"int", "float"}
            /\ (lines # <<>> /\ ~HasPositiveLine(lines)) => invalid /\ ~required
            /\ ~(required /\ invalid)

\* A list of lines without a positive one is reported as invalid, with its
\* TFA left as None.
C7_Witness ==
    /\ Returned
    /\ _parse_nozzles(Get(section_data, "bit1_nozzles")) # <<>>
    /\ HasError("BIT-1" \o NOZZLES_INVALID)
    /\ ~HasError("BIT-1" \o NOZZLES_REQUIRED)
    /\ Get(result.computed, "bit1_tfa_in2") = PyNone

\* The rules of a bit ("1", "2") for kind, type, serial and nozzles.
BitRules(bit) ==
    LET V(field) == Get(section_data, "bit" \o bit \o "_" \o field)
        label == "BIT-" \o bit
    IN  /\ ChoiceRule(label \o " / PDC/TRICONE", V("kind"), BIT_KINDS)
        /\ TextRule(label \o " / TYPE", V("type"))
        /\ TextRule(label \o " / SERIAL", V("serial"))
        /\ NozzleRule(label, _parse_nozzles(V("nozzles")))

Bit2Inactive ==
    /\ ErrorsOf("BIT-2") = {}
    /\ \A field \in {"brand", "kind", "type", "iadc", "serial"} :
          result.computed["bit2_" \o field] = PyStr("")
    /\ "bit2_tfa_in2" \notin DOMAIN result.computed

Bit2Active ==
    /\ _is_blank(Get(section_data, "bit2_brand")) =>
          HasError("BIT-2 / BRAND is required when BIT-2 fields are provided.")
    /\ BitRules("2")
    /\ BitRules("1")

\* kind, type, iadc, serial or (parsed) nozzles of bit 2 is populated
Bit2OtherPopulated ==
    \/ \E field \in {"kind", "type", "iadc", "serial"} :
          ~_is_blank(Get(section_data, "bit2_" \o field))
    \/ _parse_nozzles(Get(section_data, "bit2_nozzles")) # <<>>

\* C8, as stated: the Bit 2 group is inactive (no Bit-2 error, empty
\* placeholders) unless at least one of bit2_kind, bit2_type, bit2_iadc,
\* bit2_serial or bit2_nozzles is populated; once active a blank bit2_brand
\* is an error and kind, type, serial and nozzles are validated as for
\* Bit 1.
C8_Bit2_AsStated ==
    Returned => IF Bit2OtherPopulated THEN Bit2Active ELSE Bit2Inactive

\* C8: the Bit 2 group is inactive (no Bit-2 error, empty placeholders)
\* unless at least one of bit2_brand, bit2_kind, bit2_type, bit2_iadc,
\* bit2_serial is non-blank or bit2_nozzles parses to at least one line;
\* once active a blank bit2_brand is an error and kind, type, serial and
\* nozzles are validated as for Bit 1.
C8_Bit2 ==
    Returned =>
        IF ~_is_blank(Get(section_data, "bit2_brand")) \/ Bit2OtherPopulated
        THEN Bit2Active
        ELSE Bit2Inactive

\* Bit 2 is given by its brand alone and its other fields are demanded.
C8_Witness ==
    /\ Returned
    /\ ~_is_blank(Get(section_data, "bit2_brand"))
    /\ ~Bit2OtherPopulated
    /\ HasError("BIT-2 / SERIAL is required.")
    /\ HasError("BIT-2" \o NOZZLES_REQUIRED)

PAIRING_ERROR == "INFO / CASING ID is not valid for the selected CASING OD."

\* C9: when info_casing_od and info_casing_id are each members of their
\* option lists, the cross-field error "CASING ID is not valid for the
\* selected CASING OD" is reported exactly when the ID is not in the set
\* CASING_ID_BY_OD holds for that OD: OD 7" with ID 6.184" is accepted,
\* OD 7" with ID 8.097" is rejected.
C9_CasingPairing ==
    Returned =>
        LET od == _as_str(Get(section_data, "info_casing_od"))
            id == _as_str(Get(section_data, "info_casing_id"))
        IN  (od \in CASING_OD_OPTIONS /\ id \in CASING_ID_OPTIONS) =>
                /\ HasError(PAIRING_ERROR) <=> id \notin CASING_ID_BY_OD[od]
                /\ (od = "7\"" /\ id = "6.184\"") => ~HasError(PAIRING_ERROR)
                /\ (od = "7\"" /\ id = "8.097\"") => HasError(PAIRING_ERROR)

\* OD 7" with the ID 8.097" of another OD is rejected.
C9_Witness ==
    /\ Returned
    /\ Get(section_data, "info_casing_od") = PyStr("7\"")
    /\ Get(section_data, "info_casing_id") = PyStr("8.097\"")
    /\ HasError(PAIRING_ERROR)
    /\ ErrorsOf("INFO / CASING OD") = {}

\* C10: when OD and ID are both "OPEN HOLE", computed info_casing_shoe is
\* 0.0 and no casing-shoe error is reported whatever info_casing_shoe
\* holds; in every other case info_casing_shoe must be a parseable decimal
\* strictly greater than 0, else an error is reported and computed
\* info_casing_shoe is None.
C10_CasingShoe ==
    Returned =>
        LET od == _as_str(Get(section_data, "info_casing_od"))
            id == _as_str(Get(section_data, "info_casing_id"))
            shoe == Get(section_data, "info_casing_shoe")
            computed == result.computed["info_casing_shoe"]
            reported == ErrorsOf("INFO / CASING SHOE") # {}
        IN  IF od = "OPEN HOLE" /\ id = "OPEN HOLE"
            THEN computed = PyFloat(0) /\ ~reported
            ELSE IF IsDecimal(shoe) /\ DecimalOf(shoe).n > 0
                 THEN computed = DecimalOf(shoe) /\ ~reported
                 ELSE computed = PyNone /\ reported

\* An open hole with an unreadable shoe: the shoe is 0.0, nothing reported.
C10_Witness ==
    /\ Returned
    /\ _as_str(Get(section_data, "info_casing_od")) = "OPEN HOLE"
    /\ _as_str(Get(section_data, "info_casing_id")) = "OPEN HOLE"
    /\ Get(section_data, "info_casing_shoe") = PyStr("abc")
    /\ result.computed["info_casing_shoe"] = PyFloat(0)
    /\ ErrorsOf("INFO / CASING SHOE") = {}

\* The value of a field of a run, and whether the run has one that is not
\* blank.
RunField_(i, run) == _run_value(section_data, run_fields[i].key, run)

RunGiven(run) == \E i \in 1..Len(run_fields) : ~_is_blank(RunField_(i, run))

\* The messages of result.errors that are about a run.
RunErrors(run) ==
    {j \in 1..Len(result.errors) :
        Mentions(result.errors[j], "(RUN-" \o IntToStr(run) \o ")")}

\* Field i of a run fails as a required decimal: blank, unparseable or
\* under its minimum (standby > 0, the others >= 0).
FailsRequired(i, run) ==
    \/ ~IsDecimal(RunField_(i, run))
    \/ IF run_fields[i].key = "ta_standby_time_hrs"
       THEN DecimalOf(RunField_(i, run)).n <= 0
       ELSE DecimalOf(RunField_(i, run)).n < 0

\* C4: all 12 run-1 fields are always validated as required decimals; for
\* run 2 and run 3, if all 12 fields of the run are blank no error is
\* reported for the run, and as soon as one field of the run is non-blank
\* every one of its 12 fields is validated as a required decimal (standby
\* strictly > 0, the others >= 0).
C4_RunActivation ==
    Returned =>
        \A run \in 1..3 :
            IF run = 1 \/ RunGiven(run)
            THEN /\ \A i \in 1..Len(run_fields) :
                       FailsRequired(i, run) <=>
                           \E j \in RunErrors(run) :
                               Mentions(result.errors[j], run_fields[i].label \o " (RUN-")
                 /\ Cardinality(RunErrors(run)) =
                       Cardinality({i \in 1..Len(run_fields) : FailsRequired(i, run)})
            ELSE RunErrors(run) = {}

\* Run 2 is given by one field alone and its 11 other fields are reported;
\* run 3 is blank and nothing is reported for it.
C4_Witness ==
    /\ Returned
    /\ Cardinality({i \in 1..Len(run_fields) : ~_is_blank(RunField_(i, 2))}) = 1
    /\ Cardinality(RunErrors(2)) = 11
    /\ ~RunGiven(3)
    /\ RunErrors(3) = {}

MOB_BLANK == "MOB TO RELEASE is blank. Please verify all date and time inputs."

\* A date field holds a date _parse_date reads; a time field holds a time
\* normalize_hhmm reads.
DateGiven(key) == _parse_date(Get(section_data, key)).t # "None"

TimeGiven(key) ==
    /\ ~_is_blank(Get(section_data, key))
    /\ normalize_hhmm(_as_str(Get(section_data, key))).exc = ""

\* mob_to_release_hours on the four fields as the validator passes them on.
MobHours ==
    mob_to_release_hours(_parse_date(Get(section_data, "ta_call_out_date")).n,
                         normalize_hhmm(_as_str(Get(section_data, "ta_crew_mob_time"))).v,
                         _parse_date(Get(section_data, "ta_release_date")).n,
                         normalize_hhmm(_as_str(Get(section_data, "ta_release_time"))).v)

MobFieldsGiven ==
    /\ DateGiven("ta_call_out_date") /\ TimeGiven("ta_crew_mob_time")
    /\ DateGiven("ta_release_date") /\ TimeGiven("ta_release_time")

\* C11: the error "MOB TO RELEASE is blank..." is in errors exactly once
\* whenever one of call-out date, crew-mob time, release date and release
\* time is missing or unparseable or mob_to_release_hours raises, and not at
\* all otherwise; a missing or unparseable field has its own error as well;
\* the catch-all is absent exactly when computed ta_mob_to_release_hrs is a
\* number.
C11_MobCatchAll ==
    Returned =>
        LET n == Cardinality({i \in 1..Len(result.errors) : result.errors[i] = MOB_BLANK})
            failing == ~MobFieldsGiven \/ MobHours.exc # ""
        IN  /\ n = IF failing THEN 1 ELSE 0
            /\ ~DateGiven("ta_call_out_date") =>
                    ErrorsOf("TIME ANALYSIS / CALL OUT DATE") # {}
            /\ ~TimeGiven("ta_crew_mob_time") =>
                    ErrorsOf("TIME ANALYSIS / CREW MOB TIME") # {}
            /\ ~DateGiven("ta_release_date") =>
                    ErrorsOf("TIME ANALYSIS / RELEASE DATE") # {}
            /\ ~TimeGiven("ta_release_time") =>
                    ErrorsOf("TIME ANALYSIS / RELEASE TIME") # {}
            /\ n = 0 <=> result.computed["ta_mob_to_release_hrs"].t \in {"int", "float"}

\* All four fields are given and the release precedes the mobilization:
\* the catch-all is the only error of the block.
C11_Witness ==
    /\ Returned
    /\ MobFieldsGiven
    /\ MobHours.exc # ""
    /\ HasError(MOB_BLANK)
    /\ ErrorsOf("TIME ANALYSIS / ") = {}
    /\ result.computed["ta_mob_to_release_hrs"] = PyNone

\* What the run loop leaves in run_values[run][key]: the number of a
\* required field that passes, None for a field that fails and for every
\* field of a run that is not filled in.
Validated(key, run) ==
    LET i == CHOOSE j \in 1..Len(run_fields) : run_fields[j].key = key
    IN  IF (run = 1 \/ RunGiven(run)) /\ ~FailsRequired(i, run)
        THEN DecimalOf(RunField_(i, run)) ELSE PyNone

RunComputed(prefix, run) == result.computed[prefix \o IntToStr(run)]

\* The sum of the numbers among values[1..3], in thousandths.
SumOfPresent(values) ==
    LET N(run) == IF values[run].t = "None" THEN 0 ELSE values[run].n
    IN  N(1) + N(2) + N(3)

\* C12: every efficiency in computed follows the zero-guard rule of
\* eff_drilling_percent: for a run whose total drilling time and BRT are both
\* present, and for the section when its total drilling time is present (BRT
\* total the sum of the present BRT values), the efficiency is 0.0 when the
\* drilling time or the BRT is <= 0 and drilling time / BRT * 100 otherwise.
C12_EffZeroGuard ==
    Returned =>
        /\ \A run \in 1..3 :
              LET tdt == RunComputed("ta_total_drilling_time_hrs_run", run)
                  brt == Validated("ta_brt_hrs", run)
              IN  tdt.t # "None" /\ brt.t # "None" =>
                      RunComputed("ta_eff_drilling_pct_run", run)
                          = eff_drilling_percent(tdt, brt)
        /\ LET tdt == result.computed["ta_total_drilling_time_hrs_total"]
               brt_total ==
                   PyFloat(SumOfPresent([run \in 1..3 |-> Validated("ta_brt_hrs", run)]))
           IN  tdt.t # "None" =>
                   result.computed["ta_eff_drilling_pct_total"]
                       = eff_drilling_percent(tdt, brt_total)

\* rotary + sliding of a run when both validated to a number, else None
RunTotal(rotary, sliding, run) ==
    IF Validated(rotary, run).t # "None" /\ Validated(sliding, run).t # "None"
    THEN PyFloat(Validated(rotary, run).n + Validated(sliding, run).n)
    ELSE PyNone

\* total is the sum of the per-run totals that are numbers, and None when
\* there is none.
SectionTotal(total, runs) ==
    IF \A run \in 1..3 : runs[run].t = "None" THEN total = PyNone
    ELSE total.t \in {"int", "float"} /\ total.n = SumOfPresent(runs)

\* C13: a run's total drilling time (total meters) is rotary + sliding when
\* both operands of the run validated to a number and None otherwise; the
\* section total is the sum of the per-run totals that are not None, and is
\* None, not 0, exactly when all three per-run totals are None.
C13_DrillingTotals ==
    Returned =>
        /\ \A run \in 1..3 :
              /\ RunComputed("ta_total_drilling_time_hrs_run", run)
                     = RunTotal("ta_rotary_time_hrs", "ta_sliding_time_hrs", run)
              /\ RunComputed("ta_total_drilling_meters_run", run)
                     = RunTotal("ta_rotary_meters", "ta_sliding_meters", run)
        /\ SectionTotal(result.computed["ta_total_drilling_time_hrs_total"],
                        [run \in 1..3 |->
                            RunComputed("ta_total_drilling_time_hrs_run", run)])
        /\ SectionTotal(result.computed["ta_total_drilling_meters_total"],
                        [run \in 1..3 |->
                            RunComputed("ta_total_drilling_meters_run", run)])

\* Run 1 has an unreadable rotary time and run 2 a negative one, run 3 is
\* filled in: the time total is that of run 3 alone; the meters of run 1
\* are unreadable too and run 3 has no sliding meters, so the meter total is
\* that of run 2.
C13_Witness ==
    /\ Returned
    /\ RunComputed("ta_total_drilling_time_hrs_run", 1) = PyNone
    /\ RunComputed("ta_total_drilling_time_hrs_run", 2) = PyNone
    /\ RunComputed("ta_total_drilling_time_hrs_run", 3) = PyFloat(6000)
    /\ result.computed["ta_total_drilling_time_hrs_total"] = PyFloat(6000)
    /\ RunComputed("ta_total_drilling_meters_run", 1) = PyNone
    /\ RunComputed("ta_total_drilling_meters_run", 3) = PyNone
    /\ result.computed["ta_total_drilling_meters_total"] = PyFloat(4000)

\* The keys the active branch of each optional group assigns in computed.
MOTOR1_KEYS == {"mud_motor1_" \o field : field \in MOTOR_FIELDS}

MOTOR2_KEYS == {"mud_motor2_" \o field : field \in MOTOR_FIELDS}

BIT2_KEYS ==
    {"bit2_brand", "bit2_kind", "bit2_type", "bit2_iadc", "bit2_serial",
     "bit2_tfa_in2", "bit2_nozzle_summary"}

\* Every key of keys is in computed with an empty string or None.
Placeholders(keys) ==
    \A k \in keys :
        k \in DOMAIN result.computed /\ result.computed[k] \in {PyStr(""), PyNone}

Motor1Exempt ==
    /\ _as_str(Get(section_data, "dd_well_type")) = "ONLY INCLINATION"
    /\ \A field \in MOTOR_FIELDS : _is_blank(Get(section_data, "mud_motor1_" \o field))

Motor2Blank ==
    \A field \in MOTOR_FIELDS : _is_blank(Get(section_data, "mud_motor2_" \o field))

Bit2Blank == _is_blank(Get(section_data, "bit2_brand")) /\ ~Bit2OtherPopulated

\* C14: for each optional group (mud motor 1 when exempt, mud motor 2,
\* bit 2), when the group is inactive computed still holds every key the
\* group writes when it is active, with an empty string or None in it, so
\* that the key set of computed does not depend on which groups are active.
C14_CompleteSchema ==
    Returned =>
        /\ Motor1Exempt => Placeholders(MOTOR1_KEYS)
        /\ Motor2Blank => Placeholders(MOTOR2_KEYS)
        /\ Bit2Blank => Placeholders(BIT2_KEYS)

\* The instant a date and a normalized "HH:MM" name, in minutes from
\* 0001-01-01 00:00: "24:00" is minute 24 * 60 of its date, the midnight
\* of the day after.
Instant(ymd, hhmm) ==
    ToOrdinal(ymd) * 1440 + DigitsToInt(SubSeq(hhmm, 1, 2)) * 60
    + DigitsToInt(SubSeq(hhmm, 4, 5))

MobInstant ==
    Instant(section_data["call_out_date"].n,
            normalize_hhmm(section_data["crew_mob_time_hhmm"].s).v)

ReleaseInstant ==
    Instant(section_data["release_date"].n,
            normalize_hhmm(section_data["release_time_hhmm"].s).v)

TimesReadable ==
    /\ normalize_hhmm(section_data["crew_mob_time_hhmm"].s).exc = ""
    /\ normalize_hhmm(section_data["release_time_hhmm"].s).exc = ""

\* minutes as a float of hours, in thousandths
HoursOf(minutes) == PyFloat((minutes \div 60) * 1000 + ((minutes % 60) * 1000) \div 60)

\* C15: mob_to_release_hours reads a time of exactly "24:00" as midnight of
\* the day after its date, returns release instant - mobilization instant
\* in hours, and raises whenever the release instant precedes the
\* mobilization instant; call-out date D with "24:00" and release on D at
\* "06:00" raises.
C15_MobToRelease ==
    (pc = "done" /\ TimesReadable) =>
        /\ IF ReleaseInstant < MobInstant THEN result.exc # ""
           ELSE result.exc = "" /\ result.v = HoursOf(ReleaseInstant - MobInstant)
        /\ (/\ section_data["call_out_date"] = section_data["release_date"]
            /\ section_data["crew_mob_time_hhmm"].s = "24:00"
            /\ section_data["release_time_hhmm"].s = "06:00") => result.exc # ""

Typed(part) == section_data[part].s

\* What is due for an hour and a minute: "24:00" for hour 24 with minute
\* 0, the zero-padded "HH:MM" within 0..23 and 0..59, an exception
\* otherwise.
HhMmOf(hour, minute) ==
    LET TwoDigits(n) == IF n < 10 THEN "0" \o NatToStr(n) ELSE NatToStr(n)
    IN  IF hour = 24 /\ minute = 0 THEN Return("24:00")
        ELSE IF hour \in 0..23 /\ minute \in 0..59
             THEN Return(TwoDigits(hour) \o ":" \o TwoDigits(minute))
             ELSE Raise("ValueError")

\* The call ended as due does: with an exception, or with the same value.
Gives(due) == result.exc = due.exc /\ (due.exc = "" => result.v = due.v)

ThreeDigits ==
    /\ Typed("sep") = "" /\ Typed("mm") = ""
    /\ Len(Typed("hh")) = 3 /\ IsDigit(Typed("hh"))

\* C16: normalize_hhmm on a 3-digit all-digit input d1d2d3: if d3 is 0 and
\* the number d1d2 is between 0 and 24 it is read as hour d1d2 with minute
\* 00, otherwise as hour d1 with minutes d2d3; "010" gives "01:00", "930"
\* gives "09:30" and "123" gives "01:23".
C16_ThreeDigits ==
    (pc = "done" /\ ThreeDigits) =>
        LET d == Typed("hh")
            d1d2 == DigitsToInt(SubSeq(d, 1, 2))
        IN  /\ Gives(IF SubSeq(d, 3, 3) = "0" /\ d1d2 \in 0..24
                      THEN HhMmOf(d1d2, 0)
                      ELSE HhMmOf(DigitsToInt(SubSeq(d, 1, 1)),
                                  DigitsToInt(SubSeq(d, 2, 3))))
            /\ d = "010" => Gives(Return("01:00"))
            /\ d = "930" => Gives(Return("09:30"))
            /\ d = "123" => Gives(Return("01:23"))

\* "230" is 23:00, not 02:30.
C16_Witness ==
    /\ pc = "done"
    /\ ThreeDigits
    /\ Typed("hh") = "230"
    /\ Gives(Return("23:00"))

\* The hour and the minute are typed apart, or as four digits, or the hour
\* alone as one or two digits.
HourTyped ==
    /\ IsDigit(Typed("hh"))
    /\ \/ Typed("sep") # "" /\ IsDigit(Typed("mm"))
       \/ Typed("sep") = "" /\ Len(Typed("hh")) = 2 /\ Len(Typed("mm")) = 2
       \/ Typed("sep") = "" /\ Len(Typed("hh")) \in {1, 2} /\ Typed("mm") = ""

\* C17: normalize_hhmm accepts hour 24 only together with minute 0 and
\* then returns exactly "24:00"; for every other parsed (hour, minute) it
\* returns the zero-padded "HH:MM" when 0 <= hour <= 23 and
\* 0 <= minute <= 59 and raises otherwise; "2401" and "24:30" raise.
C17_Hour24 ==
    (pc = "done" /\ HourTyped) =>
        /\ Gives(HhMmOf(DigitsToInt(Typed("hh")),
                        IF Typed("mm") = "" THEN 0 ELSE DigitsToInt(Typed("mm"))))
        /\ Typed("hh") = "24" =>
               IF Typed("mm") = "" \/ DigitsToInt(Typed("mm")) = 0
               THEN Gives(Return("24:00")) ELSE result.exc # ""
        /\ text \in {"2401", "24:30"} => result.exc # ""

\* "24:30" is refused.
C17_Witness ==
    /\ pc = "done"
    /\ text = "24:30"
    /\ HourTyped
    /\ result.exc = "ValueError"

\* C18: normalize_hhmm is idempotent on its outputs: every "HH:MM" it
\* returns, "24:00" included, is accepted again and returned unchanged.
C18_Idempotent == pc = "again" => Gives(Return(ctext))

\* "2400" gives "24:00", and "24:00" gives "24:00".
C18_Witness ==
    /\ pc = "again"
    /\ text = "2400"
    /\ ctext = "24:00"
    /\ Gives(Return("24:00"))

\* The form holds nothing for the field: the key is absent, or its value is
\* None, empty or whitespace only.
Unfilled(field) ==
    \/ field \notin DOMAIN section_data
    \/ section_data[field] = PyNone
    \/ section_data[field].t = "str" /\ Strip(section_data[field].s) = ""

\* C19: validate_step2 treats the 7 actual fields as optional: an actual
\* field that is absent, None, empty or whitespace-only has no field error
\* and does not affect ok; range rules apply to an actual field only when
\* it holds a value.
C19_ActualOptional ==
    pc = "done" =>
        /\ \A i \in 1..Len(STEP2_ACTUAL_FIELDS) :
              Unfilled(STEP2_ACTUAL_FIELDS[i]) =>
                  STEP2_ACTUAL_FIELDS[i] \notin DOMAIN vr["r"].field_errors
        /\ vr["r"].ok <=> DOMAIN vr["r"].field_errors = {}

\* The canonicalized value of a field of the form
Canon(field) == canonical_text(GetOr(section_data, field, PyStr("")))

\* The canonicalized value of a required field is empty or a placeholder.
NotProvided(field) == Canon(field) = "" \/ Canon(field) \in _INVALID_PLACEHOLDER_VALUES

\* The well key and the well name are both given and the key has not the
\* form of a well key.
WellKeyMalformed ==
    /\ Canon("well_key") # "" /\ Canon("well_name") # ""
    /\ ~is_well_key_format_ok(Canon("well_key"))

\* C20: validate_step1 records a field error for each of the 8 required
\* fields whose canonicalized value is empty or a placeholder sentinel, and
\* the well-key format error on the field well_name exactly when well_key
\* and well_name are both non-empty after canonicalization and well_key
\* fails is_well_key_format_ok; ok is True exactly when neither kind of
\* error occurs.
C20_Step1 ==
    pc = "done" =>
        LET field_errors == vr["r"].field_errors
            Required(field) == STEP1_FIELD_LABELS[field] \o " is required."
        IN  /\ \A i \in 2..Len(STEP1_REQUIRED_FIELDS) :
                  LET field == STEP1_REQUIRED_FIELDS[i]
                  IN  IF NotProvided(field)
                      THEN field \in DOMAIN field_errors
                           /\ field_errors[field] = Required(field)
                      ELSE field \notin DOMAIN field_errors
            /\ "well_name" \in DOMAIN field_errors
                   <=> (NotProvided("well_name") \/ WellKeyMalformed)
            /\ WellKeyMalformed <=>
                   (/\ "well_name" \in DOMAIN field_errors
                    /\ field_errors["well_name"] = WELL_KEY_FORMAT_MESSAGE)
            /\ DOMAIN field_errors \subseteq DOMAIN STEP1_FIELD_LABELS
            /\ vr["r"].errors = <<>>
            /\ vr["r"].ok <=> (~WellKeyMalformed
                               /\ \A i \in 1..Len(STEP1_REQUIRED_FIELDS) :
                                     ~NotProvided(STEP1_REQUIRED_FIELDS[i]))

\* The key "a-b4" has a dash but no digit after it: the format error is
\* the only error.
C20_Witness ==
    /\ pc = "done"
    /\ Get(section_data, "well_key") = PyStr("a-b4")
    /\ ~NotProvided("well_name")
    /\ vr["r"].field_errors = ("well_name" :> WELL_KEY_FORMAT_MESSAGE)
    /\ ~vr["r"].ok

\* What validate_step2 reads in a planned field: None for a field that is
\* blank or not a number.
Planned(field) == _to_float(Get(section_data, field))

\* The planned field holds a number
PlannedNumber(field) == Planned(field).t = "float" /\ ~IsNaN(Planned(field))

\* The planned field holds a number that is zero or more
PlannedFromZero(field) == PlannedNumber(field) /\ Planned(field).n >= 0

\* The planned field holds a number that is more than zero
PlannedPositive(field) == PlannedNumber(field) /\ Planned(field).n > 0

\* The rule of a planned field, degrees in thousandths
PlannedRule(field) ==
    CASE field = "kop_m" -> PlannedFromZero(field)
      [] field = "tvd_planned_m" -> PlannedPositive(field)
      [] field = "md_planned_m" ->
            /\ PlannedPositive(field)
            /\ PlannedNumber("tvd_planned_m")
                   => Planned(field).n >= Planned("tvd_planned_m").n
      [] field = "max_inc_planned_deg" ->
            PlannedFromZero(field) /\ Planned(field).n <= 180000
      [] field = "azimuth_planned_deg" ->
            PlannedFromZero(field) /\ Planned(field).n <= 360000
      [] OTHER -> PlannedFromZero(field)

\* C21: validate_step2 returns ok=True only if all 8 planned fields are
\* non-blank numbers satisfying KOP >= 0, planned TVD > 0, planned MD > 0
\* and planned MD >= planned TVD, 0 <= inclination <= 180, 0 <= azimuth <=
\* 360, DLS >= 0, VS >= 0 and distance-to-plan >= 0; any missing planned
\* field or violated rule yields a field error on that field.
C21_PlannedRules ==
    pc = "done" =>
        \A i \in 1..Len(STEP2_REQUIRED_FIELDS) :
            LET field == STEP2_REQUIRED_FIELDS[i]
            IN  /\ vr["r"].ok => PlannedRule(field)
                /\ ~PlannedRule(field) => field \in DOMAIN vr["r"].field_errors

\* C21 for the forms that hold no not-a-number
C21_PlannedRulesOfNumbers ==
    (\A f \in DOMAIN section_data : ~IsNaN(_to_float(section_data[f])))
        => C21_PlannedRules

\* The canonical form of the text typed
CanonicalKey == canonical_text(PyStr(text))

\* The place of the last dash of s, 0 when s holds none
LastDash(s) ==
    IF \E i \in 1..Len(s) : SubSeq(s, i, i) = "-"
    THEN CHOOSE i \in 1..Len(s) :
            /\ SubSeq(s, i, i) = "-"
            /\ \A j \in (i + 1)..Len(s) : SubSeq(s, j, j) # "-"
    ELSE 0

\* s without what starts at its last dash
BeforeLastDash(s) == SubSeq(s, 1, LastDash(s) - 1)

C23_TfaMonotone ==
    pc = "again" =>
        LET before == section_data.before
            n == section_data.line
        IN  /\ before.exc = "" /\ n.count > 0 /\ n.size_32nds > 0
                   => result.exc = "" /\ result.v.n >= before.v.n
            /\ n.count <= 0 \/ n.size_32nds <= 0
                   => result.exc = before.exc /\ result.v = before.v
            /\ (\A i \in 1..Len(section_data.lines) :
                    section_data.lines[i].count <= 0
                        \/ section_data.lines[i].size_32nds <= 0)
                   => before.exc = "ValueError"

\* C23 for the lines whose count and size a float holds
C23_TfaMonotoneInRange ==
    section_data.line.count < FloatIntLimit /\ section_data.line.size_32nds < FloatIntLimit
        => C23_TfaMonotone

\* The arguments of the call of eff_drilling_percent
DrillingTime == section_data["drilling_time_hrs"]
BrtTime == section_data["total_brt_hrs"]

\* x <= 0, which is False of a nan
NotPositive(x) == ~IsNaN(x) /\ x.n <= 0

\* dt / brt * 100 of two floats in thousandths, brt not zero
Percent(dt, brt) ==
    IF IsNaN(dt) \/ IsNaN(brt) THEN PyNaN
    ELSE LET whole == (dt.n * 100) \div brt.n
             rest == (dt.n * 100) % brt.n
         IN  PyFloat(whole * 1000 + (rest * 1000) \div brt.n)

\* C24: eff_drilling_percent(drilling_time, brt) returns 0.0 whenever
\* drilling_time <= 0 or brt <= 0 and drilling_time/brt*100 otherwise, so it
\* never divides by zero: (0,0), (5,0) and (0,5) give 0.0 and (50,100)
\* gives 50.0.
C24_EffPercent ==
    pc = "done" =>
        /\ result.exc = ""
        /\ result.v.t = "float"
        /\ IF NotPositive(DrillingTime) \/ NotPositive(BrtTime)
           THEN result.v = PyFloat(0)
           ELSE result.v = Percent(DrillingTime, BrtTime)
        /\ DrillingTime = PyFloat(50000) /\ BrtTime = PyFloat(100000)
               => result.v = PyFloat(50000)

\* A positive drilling time over a zero BRT gives 0.0.
C24_Witness ==
    /\ pc = "done"
    /\ DrillingTime = PyFloat(5000) /\ BrtTime = PyFloat(0)
    /\ result.v = PyFloat(0)

\* The places of result.errors that hold a message about the personnel
PersonnelErrors ==
    {i \in 1..Len(result.errors) : Mentions(result.errors[i], "PERSONNEL")}

\* C25: Personnel in validate_hole_section: no individual personnel slot is
\* required; exactly one group-level PERSONNEL error is reported when all
\* 12 slots are blank, and no personnel error is reported when at least
\* one slot is non-blank.
C25_Personnel ==
    Returned =>
        IF \A i \in 1..Len(personnel_keys) : Unfilled(personnel_keys[i])
        THEN Cardinality(PersonnelErrors) = 1 /\ ~result.ok
        ELSE PersonnelErrors = {} /\ result.ok

\* The first slot is blank and a NIGHT MWD slot is filled: no error.
C25_Witness ==
    /\ Returned
    /\ Unfilled("personnel_day_dd_1")
    /\ ~Unfilled("personnel_night_mwd_3")
    /\ result.errors = <<>>
    /\ result.computed["personnel_night_mwd_3"] = PyStr("A. B.")

\* C26: missing keys are treated as blank by validate_hole_section: for
\* every recognised input key, omitting the key yields the same result (ok,
\* errors, computed) as supplying that key with None or with an
\* empty/whitespace-only string, all other keys (including legacy
\* unsuffixed keys) being equal.
C26_MissingIsBlank ==
    pc = "again" => result = vr["other"]

\* C26 for the forms that hold no legacy key
C26_MissingIsBlankWithoutLegacy ==
    DOMAIN section_data \cap DOMAIN LEGACY_KEYS = {} /\ text \notin DOMAIN LEGACY_KEYS
        => C26_MissingIsBlank

\* The form holds the key
Present(key) == key \in DOMAIN section_data

\* The value is not accepted as a required decimal of the metric: blank,
\* unreadable or under the minimum of the metric.
Rejected(key, value) ==
    \/ ~IsDecimal(value)
    \/ IF key = "ta_standby_time_hrs" THEN DecimalOf(value).n <= 0
       ELSE DecimalOf(value).n < 0

\* result.errors holds a message about the metric of the run
Reported(key, run) ==
    LET i == CHOOSE j \in 1..Len(run_fields) : run_fields[j].key = key
    IN  \E j \in 1..Len(result.errors) :
            Mentions(result.errors[j],
                     run_fields[i].label \o " (RUN-" \o IntToStr(run) \o ")")

\* The metric of run 2 or 3, read under the key of the run only
OfRun(key, run) == Get(section_data, key \o "_run" \o IntToStr(run))

\* Runs 2 and 3 never read the unsuffixed key: a run none of whose own
\* keys is filled has no message, and in a run that is given every metric
\* is validated by the value under the key of the run.
LaterRunsOwnKeys ==
    \A run \in 2..3 :
        IF \E key \in RUN_KEYS : ~_is_blank(OfRun(key, run))
        THEN \A key \in RUN_KEYS : Reported(key, run) <=> Rejected(key, OfRun(key, run))
        ELSE /\ \A key \in RUN_KEYS : ~Reported(key, run)
             /\ RunComputed("ta_total_drilling_time_hrs_run", run) = PyNone

\* The value validated for run 1 is looked: a message about the metric is
\* reported exactly when looked is rejected, and the total drilling time
\* of run 1 is made of the looked rotary and sliding times.
Run1Validates(looked) ==
    /\ \A key \in RUN_KEYS : Reported(key, 1) <=> Rejected(key, looked[key])
    /\ RunComputed("ta_total_drilling_time_hrs_run", 1) =
           IF Rejected("ta_rotary_time_hrs", looked["ta_rotary_time_hrs"])
                  \/ Rejected("ta_sliding_time_hrs", looked["ta_sliding_time_hrs"])
           THEN PyNone
           ELSE PyFloat(DecimalOf(looked["ta_rotary_time_hrs"]).n
                        + DecimalOf(looked["ta_sliding_time_hrs"]).n)

\* C27, as stated: run-1 time-analysis lookup in validate_hole_section: for
\* each of the 12 metrics, when both the '_run1'-suffixed key and the legacy
\* unsuffixed key are present the suffixed value is the one validated, and
\* the legacy unsuffixed value is used when the suffixed key is absent;
\* runs 2 and 3 never read the unsuffixed key.
C27_Run1Lookup_AsStated ==
    Returned =>
        /\ Run1Validates([key \in RUN_KEYS |->
               IF Present(key \o "_run1") THEN section_data[key \o "_run1"]
               ELSE Get(section_data, key)])
        /\ LaterRunsOwnKeys

\* C27, amended: the suffixed value is the one validated when the suffixed
\* key is present with a value other than None; the legacy value is used
\* when the suffixed key is absent or holds None.
C27_Run1Lookup ==
    Returned =>
        /\ Run1Validates([key \in RUN_KEYS |->
               IF Present(key \o "_run1") /\ section_data[key \o "_run1"] # PyNone
               THEN section_data[key \o "_run1"]
               ELSE Get(section_data, key)])
        /\ LaterRunsOwnKeys

\* Both keys of the rotary time are present, the suffixed one unreadable
\* and the legacy one valid: the message is reported.
C27_Witness ==
    /\ Returned
    /\ Present("ta_rotary_time_hrs_run1") /\ Present("ta_rotary_time_hrs")
    /\ section_data["ta_rotary_time_hrs_run1"] = PyStr("abc")
    /\ section_data["ta_rotary_time_hrs"] = PyStr("2")
    /\ Reported("ta_rotary_time_hrs", 1)
    /\ ~result.ok

\* The hour and the minute are typed with a colon or a dot between them.
Separated == Typed("sep") # ""

\* The part is one or two digits
OneOrTwoDigits(part) == IsDigit(Typed(part)) /\ Len(Typed(part)) \in {1, 2}

\* C28: normalize_hhmm accepts a colon/dot-separated input only in the form
\* H{1,2}:M{1,2}: exactly two parts, each consisting of one or two digits;
\* an input whose hour or minute part has three or more digits (e.g.
\* "007:030") is rejected.
C28_SeparatedForm ==
    (pc = "done" /\ Separated) =>
        /\ result.exc = "" => OneOrTwoDigits("hh") /\ OneOrTwoDigits("mm")
        /\ Typed("hh") = "007" /\ Typed("mm") = "030" => result.exc # ""

\* C28 with parts of any number of digits allowed
C28_SeparatedDigits ==
    (pc = "done" /\ Separated) =>
        (result.exc = "" => IsDigit(Typed("hh")) /\ IsDigit(Typed("mm")))

\* The derived values a saved section needs.
REQUIRED_DERIVED ==
    {"bit1_tfa_in2", "ta_mob_to_release_hrs", "ta_total_drilling_time_hrs_run1",
     "ta_total_drilling_meters_run1", "ta_total_drilling_time_hrs_total",
     "ta_total_drilling_meters_total", "info_section_tvd", "info_section_md",
     "info_casing_shoe"}

\* The value is a number: an int or a float that is not nan.
IsNumber(value) == value.t \in {"int", "float"} /\ ~IsNaN(value)

\* C29: whenever validate_hole_section returns ok=True, errors is empty and
\* the required derived values in computed are all numbers, never None or
\* absent: bit1_tfa_in2, ta_mob_to_release_hrs,
\* ta_total_drilling_time_hrs_run1, ta_total_drilling_meters_run1,
\* ta_total_drilling_time_hrs_total, ta_total_drilling_meters_total,
\* info_section_tvd, info_section_md and info_casing_shoe.
C29_OkIsComplete ==
    (Returned /\ result.ok) =>
        /\ result.errors = <<>>
        /\ \A key \in REQUIRED_DERIVED :
              key \in DOMAIN result.computed /\ IsNumber(result.computed[key])

\* An open hole without a casing shoe is accepted: the shoe is 0.0.
C29_Witness ==
    /\ Returned /\ result.ok
    /\ Get(section_data, "info_casing_od") = PyStr("OPEN HOLE")
    /\ _is_blank(Get(section_data, "info_casing_shoe"))
    /\ result.computed["info_casing_shoe"] = PyFloat(0)
    /\ IsNumber(result.computed["bit1_tfa_in2"])

\* C30: in every sequence of edits and of Validate and Save clicks,
\* save_hole_section is called only within a Save click whose
\* validate_hole_section, run on the data the form held when the button was
\* clicked, returned ok = True; the store changes only in such a call; a
\* Validate click, and a Save click whose validation found errors, neither
\* call it nor change the store.
C30_SaveGate ==
    [][/\ calls' # calls =>
            /\ click' = "save"
            /\ section_data' = _collect_section_data(widgets)
            /\ result' = validate_hole_section(section_data')
            /\ result'.raised = "" /\ result'.ok
       /\ store' # store => calls' # calls /\ store' = calls'[Len(calls')]
       /\ (click' = "validate" \/ ~result'.ok) => calls' = calls /\ store' = store]_vars

\* A Save click was let through and wrote the row, and a later Save click on
\* a form with errors was turned down.
C30_Witness ==
    /\ click = "save"
    /\ result.raised = "" /\ ~result.ok /\ result.errors # <<>>
    /\ Len(calls) = 1
    /\ store = calls[1]

============================================================================
